---- MODULE Spec2Model ----
(***************************************************************************)
(* Model of open-sqlui's core: DatabaseClient (core/db_client.py),          *)
(* Repository (core/repository.py), DatabaseService                         *)
(* (services/database_service.py) and TableService                          *)
(* (services/table_service.py), over one table                              *)
(*   users(id INTEGER PRIMARY KEY, name TEXT NOT NULL)                      *)
(* in every database file.                                                  *)
(***************************************************************************)
EXTENDS Integers, Sequences, FiniteSets, TLC

\* ------------------------------------------------------------------ bounds
MaxId == 2          \* row ids range over 1..MaxId
MaxQueue == 3       \* cap on len(pending_changes)
MaxUndo == 3        \* cap on len(_undo_stack)
ServiceQueue == 1   \* cap on len(pending_changes) in Spec
ServiceUndo == 1    \* cap on len(_undo_stack) in Spec
MaxThreads == 2     \* threads that share one DatabaseClient

Ids == 1..MaxId
Names == {"a", "b"}
Dbs == {"d1", "d2"}

NoId == 0           \* key "id" absent from a dict / no row id
NoName == ""        \* key "name" absent from a dict / no row with that id
NoDb == "none"      \* active_db is None

\* ------------------------------------------------------------ the engine
\* A table maps each id to the name of its row, NoName when there is no row.
Tables == [Ids -> Names \cup {NoName}]

EmptyTable == [i \in Ids |-> NoName]

RowIds(t) == {i \in Ids : t[i] # NoName}

SetMax(S) == IF S = {} THEN 0 ELSE CHOOSE m \in S : \A x \in S : x <= m

SetMin(S) == CHOOSE m \in S : \A x \in S : m <= x

\* dict values: a dict over the columns, a key being absent when it holds
\* NoId / NoName; EmptyData is {} (and None, which the code never executes).
EmptyData == [id |-> NoId, name |-> NoName]

IsEmpty(d) == d.id = NoId /\ d.name = NoName

RowDict(i, t) == [id |-> i, name |-> t[i]]

\* WHERE fragments with their bound parameter.
NoWhere == [col |-> "none", ival |-> 0, sval |-> ""]

WhereId(i) == [col |-> "id", ival |-> i, sval |-> ""]

WhereRowid(i) == [col |-> "rowid", ival |-> i, sval |-> ""]

WhereName(n) == [col |-> "name", ival |-> 0, sval |-> n]

WhereAll == [col |-> "all", ival |-> 0, sval |-> ""]

Matches(i, t, w) ==
    /\ t[i] # NoName
    /\ CASE w.col = "id" -> i = w.ival
         [] w.col = "rowid" -> i = w.ival
         [] w.col = "name" -> t[i] = w.sval
         [] w.col = "all" -> TRUE
         [] OTHER -> FALSE

Matching(t, w) == {i \in Ids : Matches(i, t, w)}

\* rows of a result, in rowid order
RECURSIVE RowsOf(_, _)
RowsOf(t, S) ==
    IF S = {} THEN <<>>
    ELSE LET i == SetMin(S) IN <<RowDict(i, t)>> \o RowsOf(t, S \ {i})

\* What the engine does with one statement on the table image t.
\* Result: ok, the new image, cursor.rowcount, cursor.lastrowid.
EngineResult(ok, t, rc, lid) == [ok |-> ok, t |-> t, rowcount |-> rc, lastrowid |-> lid]

\* the rowid an INSERT gives its row
NewRowId(t, d) == IF d.id # NoId THEN d.id ELSE SetMax(RowIds(t)) + 1

SqlInsert(t, d) ==
    LET i == NewRowId(t, d) IN
    IF d.name = NoName \/ i \notin Ids \/ t[i] # NoName
    THEN EngineResult(FALSE, t, 0, NoId)            \* NOT NULL / UNIQUE fails
    ELSE EngineResult(TRUE, [t EXCEPT ![i] = d.name], 1, i)

SqlUpdate(t, d, w) ==
    LET M == Matching(t, w) IN
    IF d.id = NoId
    THEN EngineResult(TRUE, [i \in Ids |-> IF i \in M THEN d.name ELSE t[i]],
                      Cardinality(M), NoId)
    ELSE IF M = {} THEN EngineResult(TRUE, t, 0, NoId)
    ELSE IF Cardinality(M) >= 2 THEN EngineResult(FALSE, t, 0, NoId)
    ELSE LET i == CHOOSE x \in M : TRUE
             n == IF d.name # NoName THEN d.name ELSE t[i]
         IN IF d.id # i /\ t[d.id] # NoName
            THEN EngineResult(FALSE, t, 0, NoId)    \* UNIQUE fails
            ELSE EngineResult(TRUE, [[t EXCEPT ![i] = NoName] EXCEPT ![d.id] = n],
                              1, NoId)

\* REPLACE INTO users VALUES (id, name)
SqlReplace(t, d) ==
    IF d.id \notin Ids \/ d.name = NoName THEN EngineResult(FALSE, t, 0, NoId)
    ELSE EngineResult(TRUE, [t EXCEPT ![d.id] = d.name], 1, d.id)

SqlDelete(t, w) ==
    LET M == Matching(t, w) IN
    EngineResult(TRUE, [i \in Ids |-> IF i \in M THEN NoName ELSE t[i]],
                 Cardinality(M), NoId)

\* ------------------------------------------------------- statement texts
\* A statement text is a sequence of characters; only its head matters to
\* the classifications below, so texts are cut after the leading keyword.
Chars_INSERT == <<"I", "N", "S", "E", "R", "T">>
Chars_UPDATE == <<"U", "P", "D", "A", "T", "E">>
Chars_DELETE == <<"D", "E", "L", "E", "T", "E">>
Chars_CREATE == <<"C", "R", "E", "A", "T", "E">>
Chars_DROP == <<"D", "R", "O", "P">>
Chars_ALTER == <<"A", "L", "T", "E", "R">>
Chars_SELECT == <<"S", "E", "L", "E", "C", "T">>
Chars_PRAGMA == <<"P", "R", "A", "G", "M", "A">>
Chars_REPLACE == <<"R", "E", "P", "L", "A", "C", "E">>
Chars_WITH == <<"W", "I", "T", "H">>

Whitespace == {" ", "\n", "\t"}

LowerLetters ==
    <<"a", "b", "c", "d", "e", "f", "g", "h", "i", "j", "k", "l",
      "m", "n", "o", "p", "q", "r", "s", "t", "u", "v", "w", "x", "y", "z">>

UpperLetters ==
    <<"A", "B", "C", "D", "E", "F", "G", "H", "I", "J", "K", "L",
      "M", "N", "O", "P", "Q", "R", "S", "T", "U", "V", "W", "X", "Y", "Z">>

CharUpper(c) ==
    IF \E k \in 1..Len(LowerLetters) : LowerLetters[k] = c
    THEN UpperLetters[CHOOSE k \in 1..Len(LowerLetters) : LowerLetters[k] = c]
    ELSE c

CharLower(c) ==
    IF \E k \in 1..Len(UpperLetters) : UpperLetters[k] = c
    THEN LowerLetters[CHOOSE k \in 1..Len(UpperLetters) : UpperLetters[k] = c]
    ELSE c

\* str.upper()
Upper(s) == [k \in 1..Len(s) |-> CharUpper(s[k])]

Lower(s) == [k \in 1..Len(s) |-> CharLower(s[k])]

\* str.strip()
RECURSIVE LStrip(_)
LStrip(s) == IF s # <<>> /\ Head(s) \in Whitespace THEN LStrip(Tail(s)) ELSE s

RECURSIVE RStrip(_)
RStrip(s) ==
    IF s # <<>> /\ s[Len(s)] \in Whitespace THEN RStrip(SubSeq(s, 1, Len(s) - 1)) ELSE s

Strip(s) == RStrip(LStrip(s))

\* str.startswith()
StartsWith(s, p) == Len(s) >= Len(p) /\ SubSeq(s, 1, Len(p)) = p

write_keywords == {Chars_INSERT, Chars_UPDATE, Chars_DELETE, Chars_CREATE, Chars_DROP, Chars_ALTER}

\* _is_write_query without strip()
IsWriteQueryNoStrip(query) == \E kw \in write_keywords : StartsWith(Upper(query), kw)

\* DatabaseClient._is_write_query

IsWriteQuery(query) == \E kw \in write_keywords : StartsWith(Upper(Strip(query)), kw)

\* sqlite3 (legacy transaction control): a statement is DML when, after
\* leading whitespace, it starts with INSERT, UPDATE, DELETE or REPLACE.
dml_keywords == {Chars_INSERT, Chars_UPDATE, Chars_DELETE, Chars_REPLACE}

IsDml(query) == \E kw \in dml_keywords : StartsWith(Upper(LStrip(query)), kw)

\* ---------------------------------------------------------- DatabaseClient
\* A statement: its text (head) and what the engine makes of it.
Stmt(text, op, data, where) == [text |-> text, op |-> op, data |-> data, where |-> where]

\* DDL statements touch the schema only: they write the file (and are refused
\* on a read-only handle) but leave the rows of users alone.
ModifyingOps == {"insert", "update", "delete", "replace", "ddl"}

\* One DatabaseClient together with its database file:
\*   readonly  self.readonly
\*   conn      self._connection: "none", or the mode the handle was opened in
\*   tx        the handle is inside a transaction (sqlite3 in_transaction)
\*   work      the table as the handle sees it (its uncommitted image when tx)
\*   disk      the committed table in the file
\*   file      "db": the file holds the table; "new": a database file without
\*             tables, as sqlite3.connect creates it; "none": no file at the path
\*   log       the statements the engine has run during the current call
\*   oob       the current call needed a row id beyond MaxId
NewClient(ro, t) ==
    [readonly |-> ro, conn |-> "none", tx |-> FALSE, work |-> t, disk |-> t,
     file |-> "db", log |-> <<>>, oob |-> FALSE]

\* DatabaseClient(db_path, readonly) on the file that s stands for
ClientOn(ro, s) == [NewClient(ro, s.disk) EXCEPT !.file = s.file]

\* The result of a call: the client afterwards, the exception raised ("" when
\* none), and the cursor's rows, rowcount and lastrowid.
NoErr == ""

Result(s, err, rows, rc, lid) ==
    [s |-> s, err |-> err, rows |-> rows, rowcount |-> rc, lastrowid |-> lid]

Raise(s, err) == Result(s, err, <<>>, 0, NoId)

\* DatabaseClient.connect raises DatabaseError: mode=ro finds no file to open
ConnectFails(s) == s.conn = "none" /\ s.readonly /\ s.file = "none"

\* connect opening every handle writable (no mode=ro, query_only = 0)
connect_writable(s) == IF s.conn = "none" THEN [s EXCEPT !.conn = "rw"] ELSE s

\* DatabaseClient.connect; without mode=ro a missing file is created, empty
connect(s) ==
    IF s.conn # "none" \/ ConnectFails(s) THEN s
    ELSE IF s.readonly THEN [s EXCEPT !.conn = "ro"]
    ELSE IF s.file = "none"
    THEN [s EXCEPT !.conn = "rw", !.file = "new", !.work = EmptyTable,
                   !.disk = EmptyTable]
    ELSE [s EXCEPT !.conn = "rw"]

\* disconnect that keeps the handle
disconnect_keeping(s) == s

\* DatabaseClient.disconnect; closing a handle drops its open transaction
disconnect(s) ==
    IF s.conn # "none"
    THEN [s EXCEPT !.conn = "none", !.tx = FALSE, !.work = s.disk]
    ELSE s

\* sqlite3.Connection.commit / rollback
ConnCommit(s) == IF s.tx THEN [s EXCEPT !.tx = FALSE, !.disk = s.work] ELSE s

ConnRollback(s) == IF s.tx THEN [s EXCEPT !.tx = FALSE, !.work = s.disk] ELSE s

\* sqlite3.Connection.execute, first step: the implicit BEGIN before a DML
\* statement outside a transaction
ImplicitBegin(s0, stmt) ==
    IF IsDml(stmt.text) /\ ~s0.tx THEN [s0 EXCEPT !.tx = TRUE] ELSE s0

\* the statement reaches the engine (log); oob marks an INSERT whose new rowid
\* lies outside Ids
Logged(s1, stmt) ==
    [s1 EXCEPT !.log = Append(s1.log, stmt),
               !.oob = @ \/ (stmt.op = "insert" /\ s1.conn = "rw"
                             /\ NewRowId(s1.work, stmt.data) \notin Ids)]

\* the engine's result r on the handle s: a change made outside a transaction
\* is committed by the engine itself (autocommit)
Applied(s, r) ==
    IF ~r.ok THEN Raise(s, "sqlite3.Error")
    ELSE Result(IF s.tx THEN [s EXCEPT !.work = r.t]
                ELSE [s EXCEPT !.work = r.t, !.disk = r.t],
                NoErr, <<>>, r.rowcount, r.lastrowid)

\* the engine runs the statement; a handle opened with mode=ro and
\* query_only = 1 refuses every modifying statement
Engine(s, stmt) ==
    CASE stmt.op = "select" ->
             Result(s, NoErr, RowsOf(s.work, Matching(s.work, stmt.where)), -1, NoId)
      [] stmt.op = "begin" ->
             IF s.tx THEN Raise(s, "sqlite3.Error")
             ELSE Result([s EXCEPT !.tx = TRUE], NoErr, <<>>, -1, NoId)
      [] stmt.op \in ModifyingOps /\ s.conn = "ro" -> Raise(s, "sqlite3.Error")
      [] stmt.op = "insert" -> Applied(s, SqlInsert(s.work, stmt.data))
      [] stmt.op = "update" -> Applied(s, SqlUpdate(s.work, stmt.data, stmt.where))
      [] stmt.op = "delete" -> Applied(s, SqlDelete(s.work, stmt.where))
      [] stmt.op = "replace" -> Applied(s, SqlReplace(s.work, stmt.data))
      [] OTHER -> Result(s, NoErr, <<>>, -1, NoId)

\* sqlite3.Connection.execute on an open handle; a statement on the table
\* is not compiled when the file has no such table or is not a database
ConnExecute(s0, stmt) ==
    IF s0.file \in {"new", "bad"} /\ stmt.op # "begin"
    THEN Raise(s0, "sqlite3.Error")
    ELSE Engine(Logged(ImplicitBegin(s0, stmt), stmt), stmt)

\* execute leaving the commit to the caller
ExecutedUncommitted(s, stmt, r) ==
    IF r.err # NoErr THEN Raise(r.s, "DatabaseError") ELSE r

\* DatabaseClient.execute after the cursor came back as r: sqlite3.Error is
\* wrapped, a write-classified statement on a writable client is committed
Executed(s, stmt, r) ==
    IF r.err # NoErr THEN Raise(r.s, "DatabaseError")
    ELSE IF ~s.readonly /\ IsWriteQuery(stmt.text)
         THEN [r EXCEPT !.s = ConnCommit(r.s)]
         ELSE r

\* DatabaseClient.execute
execute(s, stmt) ==
    IF s.readonly /\ IsWriteQuery(stmt.text)
    THEN Raise(s, "ReadOnlyError")
    ELSE IF ConnectFails(s) THEN Raise(s, "DatabaseError")
    ELSE Executed(s, stmt, ConnExecute(connect(s), stmt))

Begin == Stmt(<<"B", "E", "G", "I", "N">>, "begin", EmptyData, NoWhere)

\* DatabaseClient.transaction after BEGIN came back as r: a failing BEGIN is
\* caught by the scope's own handler: rollback, DatabaseError
Entered(r) ==
    IF r.err # NoErr THEN Raise(ConnRollback(r.s), "DatabaseError") ELSE r

\* transaction() without the readonly check
transaction_enter_unchecked(s) == Entered(ConnExecute(connect(s), Begin))

\* DatabaseClient.transaction, entry: the readonly check, connect, BEGIN
transaction_enter(s) ==
    IF s.readonly THEN Raise(s, "ReadOnlyError")
    ELSE Entered(ConnExecute(connect(s), Begin))

\* DatabaseClient.transaction, exit: commit when the body ended normally,
\* rollback and DatabaseError when it raised.
transaction_exit(s, err) ==
    IF err = NoErr THEN Raise(ConnCommit(s), NoErr)
    ELSE Raise(ConnRollback(s), "DatabaseError")

\* the body of a `with client.transaction():` block that runs the statements
\* of body through DatabaseClient.execute, up to the first that raises
RECURSIVE ScopeBody(_, _)

\* the body after one statement came back as r
ScopeRest(r, rest) == IF r.err # NoErr THEN r ELSE ScopeBody(r.s, rest)

ScopeBody(s, body) ==
    IF body = <<>> THEN Raise(s, NoErr)
    ELSE ScopeRest(execute(s, Head(body)), Tail(body))

\* the block is left as r, or by an exception of its own when raises
ScopeLeft(r, raises) ==
    transaction_exit(r.s, IF r.err # NoErr THEN r.err
                          ELSE IF raises THEN "Exception" ELSE NoErr)

\* the block after the scope was entered as e
ScopeEntered(e, body, raises) ==
    IF e.err # NoErr THEN e ELSE ScopeLeft(ScopeBody(e.s, body), raises)

\* with client.transaction(): <body>
transaction(s, body, raises) == ScopeEntered(transaction_enter(s), body, raises)

\* sqlite3.Connection.executemany: the statement once per parameter tuple,
\* up to the first that fails; rowcount is the total
RECURSIVE ConnExecuteMany(_, _, _)

ManyRest(r, rest, count) ==
    IF r.err # NoErr THEN r
    ELSE ConnExecuteMany(r.s, rest, count + (IF r.rowcount > 0 THEN r.rowcount ELSE 0))

ConnExecuteMany(s, batch, count) ==
    IF batch = <<>> THEN Result(s, NoErr, <<>>, count, NoId)
    ELSE ManyRest(ConnExecute(s, Head(batch)), Tail(batch), count)

\* DatabaseClient.execute_many after the cursor came back as r
ExecutedMany(r) ==
    IF r.err # NoErr THEN Raise(ConnRollback(r.s), "DatabaseError")
    ELSE [r EXCEPT !.s = ConnCommit(r.s)]

\* DatabaseClient.execute_many
execute_many(s, batch) ==
    IF s.readonly THEN Raise(s, "ReadOnlyError")
    ELSE ExecutedMany(ConnExecuteMany(connect(s), batch, 0))

\* -------------------------------------------------------------- Repository
\* Repository.select (no column list, no ORDER BY, no LIMIT)
select(s, where) == execute(s, Stmt(Chars_SELECT, "select", EmptyData, where))

\* Repository.insert without the test for an empty row
insert_unvalidated(s, data) == execute(s, Stmt(Chars_INSERT, "insert", data, NoWhere))

\* Repository.insert
insert(s, data) ==
    IF IsEmpty(data) THEN Raise(s, "ValueError")
    ELSE execute(s, Stmt(Chars_INSERT, "insert", data, NoWhere))

\* Repository.update
update(s, data, where) ==
    IF IsEmpty(data) THEN Raise(s, "ValueError")
    ELSE execute(s, Stmt(Chars_UPDATE, "update", data, where))

\* Repository.delete
delete(s, where) == execute(s, Stmt(Chars_DELETE, "delete", EmptyData, where))

\* --------------------------------------------------------- DatabaseService
VARIABLES
    readonly,           \* DatabaseService.readonly
    databases,          \* keys of DatabaseService.databases, in insertion order
    repositories,       \* keys of DatabaseService.repositories, in insertion order
    active_db,          \* DatabaseService.active_db
    metadata_cache,     \* keys of DatabaseService._metadata_cache
    db,                 \* per database file: its DatabaseClient and its contents
    pending_changes,    \* TableService.pending_changes
    undo_stack,         \* TableService._undo_stack
    last,               \* the last call: its name, arguments, outcome
    pre,                \* the state the last call started from
    before,             \* the call before the last, kept when the last is an undo
    lock,               \* DatabaseClient._lock of a client shared by threads
    connection,         \* that client's _connection
    handles,            \* the sqlite3 connections open on that client's file
    thread              \* each thread's position in connect / disconnect

\* the DatabaseService, the TableService and the record of their last call
ServiceVars ==
    <<readonly, databases, repositories, active_db, metadata_cache, db,
      pending_changes, undo_stack, last, pre, before>>

\* the DatabaseClient that threads share
SharedVars == <<lock, connection, handles, thread>>

vars == <<ServiceVars, SharedVars>>

SeqToSet(q) == {q[k] : k \in 1..Len(q)}

\* The DatabaseService object (with the files it reaches) as one value.
Service ==
    [readonly |-> readonly, databases |-> databases, repositories |-> repositories,
     active_db |-> active_db, metadata_cache |-> metadata_cache, db |-> db]

SetService(g) ==
    /\ readonly' = g.readonly
    /\ databases' = g.databases
    /\ repositories' = g.repositories
    /\ active_db' = g.active_db
    /\ metadata_cache' = g.metadata_cache
    /\ db' = g.db

\* DatabaseService._cache_metadata
cache_metadata(g, k) == [g EXCEPT !.metadata_cache = g.metadata_cache \cup {k}]

\* Repository.get_all_tables raises DatabaseError: the client cannot connect,
\* or the SELECT on sqlite_master finds a file that is not a database
ListingFails(s) == ConnectFails(s) \/ s.file = "bad"

\* DatabaseService.get_tables(db_key): one SELECT on sqlite_master through
\* DatabaseClient.execute, which connects a client that is not connected
get_tables(g, k) ==
    IF k \in SeqToSet(g.repositories) /\ ~ConnectFails(g.db[k])
    THEN [g EXCEPT !.db[k] = connect(g.db[k])]
    ELSE g

\* open_database registering a second Client for a path that is open
OpenedAgain(g, k) ==
    cache_metadata(
        [g EXCEPT !.db[k] = connect(ClientOn(g.readonly, g.db[k])),
                  !.databases = IF k \in SeqToSet(g.databases)
                                THEN g.databases ELSE Append(g.databases, k),
                  !.repositories = IF k \in SeqToSet(g.repositories)
                                   THEN g.repositories ELSE Append(g.repositories, k)],
        k)

\* DatabaseService.open_database: the Client, the Repository and the cached
\* metadata of a path that is not open yet
Opened(g, k) ==
    IF k \notin SeqToSet(g.databases)
    THEN cache_metadata(
             [g EXCEPT !.db[k] = connect(ClientOn(g.readonly, g.db[k])),
                       !.databases = Append(g.databases, k),
                       !.repositories = Append(g.repositories, k)], k)
    ELSE g

\* DatabaseService.open_database: set_active
Activated(g, k, set_active) == IF set_active THEN [g EXCEPT !.active_db = k] ELSE g

\* DatabaseService.open_database: the DatabaseInfo; db_path.stat() raises
\* when the file is gone, before the tables are counted
Described(g, k) == IF g.db[k].file = "none" THEN g ELSE get_tables(g, k)

\* the exception open_database ends with: connect fails before anything is
\* registered, _cache_metadata fails on listing the tables, stat fails on an
\* open database whose file is gone, get_tables fails on listing the tables
open_database_error(g, k) ==
    IF k \in SeqToSet(g.databases)
    THEN IF g.db[k].file = "none" THEN "FileNotFoundError"
         ELSE IF ListingFails(g.db[k]) THEN "DatabaseError"
         ELSE NoErr
    ELSE IF ConnectFails(ClientOn(g.readonly, g.db[k])) THEN "DatabaseError"
    ELSE IF ListingFails(ClientOn(g.readonly, g.db[k])) THEN "DatabaseError"
    ELSE NoErr

\* DatabaseService.open_database: a connect that raises leaves the registry
\* alone, a _cache_metadata that raises leaves the path registered
open_database(g, k, set_active) ==
    IF k \in SeqToSet(g.databases)
    THEN Described(Activated(Opened(g, k), k, set_active), k)
    ELSE IF ConnectFails(ClientOn(g.readonly, g.db[k])) THEN g
    ELSE IF ListingFails(ClientOn(g.readonly, g.db[k])) THEN Opened(g, k)
    ELSE Described(Activated(Opened(g, k), k, set_active), k)

\* DatabaseService.refresh_metadata(db_path); NoDb is refresh_metadata()
refresh_metadata(g, db_path) ==
    LET db_key == IF db_path # NoDb THEN db_path ELSE g.active_db IN
    IF db_key = NoDb THEN g ELSE get_tables(cache_metadata(g, db_key), db_key)

\* the exception refresh_metadata ends with
refresh_metadata_error(g, db_path) ==
    LET db_key == IF db_path # NoDb THEN db_path ELSE g.active_db IN
    IF db_key \in SeqToSet(g.repositories) /\ ListingFails(g.db[db_key])
    THEN "DatabaseError" ELSE NoErr

\* a client object no registry entry refers to any more: only the file is left
Dropped(s) == ClientOn(TRUE, s)

\* dict without the key k
Without(keys, k) == SelectSeq(keys, LAMBDA x : x # k)

\* close_database leaving the cached metadata of the closed database behind
RemovedKeepingMetadata(g, k) ==
    [g EXCEPT !.db[k] = Dropped(disconnect(g.db[k])),
              !.databases = Without(g.databases, k),
              !.repositories = Without(g.repositories, k)]

\* DatabaseService.close_database: disconnect, remove the entries of k
Removed(g, k) ==
    [g EXCEPT !.db[k] = Dropped(disconnect(g.db[k])),
              !.databases = Without(g.databases, k),
              !.repositories = Without(g.repositories, k),
              !.metadata_cache = g.metadata_cache \ {k}]

\* close_database leaving the active selection on the closed database
ReassignedStale(g, k) == g

\* DatabaseService.close_database: next(iter(self.databases.keys()), None)
\* when the closed database was the active one
Reassigned(g, k) ==
    IF k = g.active_db
    THEN [g EXCEPT !.active_db = IF g.databases = <<>> THEN NoDb
                                  ELSE Head(g.databases)]
    ELSE g

\* DatabaseService.close_database: the key it closes; path NoDb is None
close_key(g, path) == IF path = NoDb THEN g.active_db ELSE path

\* DatabaseService.close_database
close_database(g, path) ==
    IF close_key(g, path) \in SeqToSet(g.databases)
    THEN Reassigned(Removed(g, close_key(g, path)), close_key(g, path))
    ELSE g

\* set_active_database without the test that the path is open
set_active_unchecked(g, k) == [g EXCEPT !.active_db = k]

\* DatabaseService.set_active_database
set_active_database(g, k) ==
    IF k \in SeqToSet(g.databases) THEN [g EXCEPT !.active_db = k] ELSE g

\* DatabaseService.close_all_databases
close_all_databases(g) ==
    [g EXCEPT !.db = [k \in Dbs |-> IF k \in SeqToSet(g.databases)
                                    THEN Dropped(disconnect(g.db[k])) ELSE g.db[k]],
              !.databases = <<>>,
              !.repositories = <<>>,
              !.metadata_cache = {},
              !.active_db = NoDb]

\* DatabaseService.toggle_readonly_mode, the reopen loop: a path that
\* exists no more is skipped
RECURSIVE reopen(_, _, _)
RECURSIVE reopen_activating_none(_, _, _)
RECURSIVE reopen_error(_, _, _)

\* the reopen loop opening every database with set_active false
reopen_activating_none(g, keys, active) ==
    IF keys = <<>> THEN g
    ELSE IF g.db[Head(keys)].file = "none"
    THEN reopen_activating_none(g, Tail(keys), active)
    ELSE reopen_activating_none(open_database(g, Head(keys), FALSE), Tail(keys),
                                active)

\* an open_database that raises ends the loop
reopen(g, keys, active) ==
    IF keys = <<>> THEN g
    ELSE IF g.db[Head(keys)].file = "none" THEN reopen(g, Tail(keys), active)
    ELSE IF open_database_error(g, Head(keys)) # NoErr
    THEN open_database(g, Head(keys), Head(keys) = active)
    ELSE reopen(open_database(g, Head(keys), Head(keys) = active), Tail(keys), active)

\* the exception the reopen loop ends with
reopen_error(g, keys, active) ==
    IF keys = <<>> THEN NoErr
    ELSE IF g.db[Head(keys)].file = "none" THEN reopen_error(g, Tail(keys), active)
    ELSE IF open_database_error(g, Head(keys)) # NoErr
    THEN open_database_error(g, Head(keys))
    ELSE reopen_error(open_database(g, Head(keys), Head(keys) = active), Tail(keys),
                      active)

\* toggle_readonly_mode flipping the flag and leaving the open clients alone
toggle_without_reopen(g) == [g EXCEPT !.readonly = ~g.readonly]

\* DatabaseService.toggle_readonly_mode
toggle_readonly_mode(g) ==
    reopen(close_all_databases([g EXCEPT !.readonly = ~g.readonly]),
           g.databases, g.active_db)

\* the exception toggle_readonly_mode ends with
toggle_readonly_mode_error(g) ==
    reopen_error(close_all_databases([g EXCEPT !.readonly = ~g.readonly]),
                 g.databases, g.active_db)

\* DatabaseService.get_active_repository: the key of the active repository
get_active_repository(g) ==
    IF g.active_db # NoDb /\ g.active_db \in SeqToSet(g.repositories)
    THEN g.active_db ELSE NoDb

\* ------------------------------------------------------------ TableService
\* DataChange (table_name is always "users"); None is EmptyData / NoWhere.
DataChange(operation, old_data, new_data, where) ==
    [operation |-> operation, old_data |-> old_data, new_data |-> new_data,
     where |-> where]

\* The TableService object with the DatabaseService it holds, as one value.
TS == [g |-> Service, pending |-> pending_changes, undo |-> undo_stack]

\* The outcome of a TableService call: the objects afterwards, the exception
\* raised (NoErr when it returned) and the value returned (True is 1).
Out(t, err, ret) == [t |-> t, err |-> err, ret |-> ret]

Front(q) == SubSeq(q, 1, Len(q) - 1)

Last(q) == q[Len(q)]

\* the loop bodies of commit_changes and undo_last_operation: one change
\* applied through the repository
ApplyChange(s, change) ==
    CASE change.operation = "insert" -> insert(s, change.new_data)
      [] change.operation = "update" -> update(s, change.new_data, change.where)
      [] change.operation = "delete" -> delete(s, change.where)
      [] OTHER -> Raise(s, NoErr)

\* Inserted pushing the undo entry whether or not repo.insert raised
InsertedPushing(t, k, r) ==
    Out([t EXCEPT !.g.db[k] = r.s,
                  !.undo = Append(@, DataChange("delete", EmptyData, EmptyData,
                                                WhereRowid(r.lastrowid)))],
        r.err, IF r.err = NoErr THEN r.lastrowid ELSE 0)

\* insert_record after repo.insert came back as r: the undo entry
Inserted(t, k, r) ==
    IF r.err # NoErr THEN Out([t EXCEPT !.g.db[k] = r.s], r.err, 0)
    ELSE Out([t EXCEPT !.g.db[k] = r.s,
                       !.undo = Append(@, DataChange("delete", EmptyData, EmptyData,
                                                     WhereRowid(r.lastrowid)))],
             NoErr, r.lastrowid)

\* TableService.insert_record
insert_record(t, data, auto_commit) ==
    LET k == get_active_repository(t.g) IN
    IF k = NoDb THEN Out(t, "DatabaseError", 0)
    ELSE IF t.g.readonly THEN Out(t, "ReadOnlyError", 0)
    ELSE IF ~auto_commit
    THEN Out([t EXCEPT !.pending =
                  Append(@, DataChange("insert", EmptyData, data, NoWhere))],
             NoErr, -1)
    ELSE Inserted(t, k, insert(t.g.db[k], data))

\* one undo entry per row of the pre-image of an update
UpdateInverses(rows, data, where) ==
    [j \in 1..Len(rows) |-> DataChange("update", data, rows[j], where)]

\* update_record after repo.update came back as r: one undo entry per old row
Updated(t, k, data, where, old, r) ==
    IF r.err # NoErr THEN Out([t EXCEPT !.g.db[k] = r.s], r.err, 0)
    ELSE Out([t EXCEPT !.g.db[k] = r.s,
                       !.undo = @ \o UpdateInverses(old.rows, data, where)],
             NoErr, r.rowcount)

\* update_record after the pre-image came back as old: queue or execute
UpdateSelected(t, k, data, where, auto_commit, old) ==
    IF old.err # NoErr THEN Out([t EXCEPT !.g.db[k] = old.s], old.err, 0)
    ELSE IF ~auto_commit
    THEN Out([t EXCEPT !.g.db[k] = old.s,
                       !.pending =
                           Append(@, DataChange("update",
                                                IF old.rows # <<>> THEN old.rows[1]
                                                ELSE EmptyData,
                                                data, where))],
             NoErr, Len(old.rows))
    ELSE Updated(t, k, data, where, old, update(old.s, data, where))

\* update_record without the check of the registry's readonly flag
update_record_unchecked(t, data, where, auto_commit) ==
    LET k == get_active_repository(t.g) IN
    IF k = NoDb THEN Out(t, "DatabaseError", 0)
    ELSE UpdateSelected(t, k, data, where, auto_commit, select(t.g.db[k], where))

\* TableService.update_record
update_record(t, data, where, auto_commit) ==
    LET k == get_active_repository(t.g) IN
    IF k = NoDb THEN Out(t, "DatabaseError", 0)
    ELSE IF t.g.readonly THEN Out(t, "ReadOnlyError", 0)
    ELSE UpdateSelected(t, k, data, where, auto_commit, select(t.g.db[k], where))

\* one pending delete per row of the pre-image
DeleteChanges(rows, where) ==
    [j \in 1..Len(rows) |-> DataChange("delete", rows[j], EmptyData, where)]

\* DeleteInverses without the primary key of the deleted rows
DeleteInversesNoKey(rows) ==
    [j \in 1..Len(rows) |->
        DataChange("insert", EmptyData, [rows[j] EXCEPT !.id = NoId], NoWhere)]

\* one undo entry (a re-insert) per row of the pre-image of a delete
DeleteInverses(rows) ==
    [j \in 1..Len(rows) |-> DataChange("insert", EmptyData, rows[j], NoWhere)]

\* Deleted also queueing the change it has just executed
DeletedQueued(t, k, old, r) ==
    IF r.err # NoErr THEN Out([t EXCEPT !.g.db[k] = r.s], r.err, 0)
    ELSE Out([t EXCEPT !.g.db[k] = r.s, !.undo = @ \o DeleteInverses(old.rows),
                       !.pending = @ \o DeleteInverses(old.rows)],
             NoErr, r.rowcount)

\* delete_record after repo.delete came back as r: one undo entry per old row
Deleted(t, k, old, r) ==
    IF r.err # NoErr THEN Out([t EXCEPT !.g.db[k] = r.s], r.err, 0)
    ELSE Out([t EXCEPT !.g.db[k] = r.s, !.undo = @ \o DeleteInverses(old.rows)],
             NoErr, r.rowcount)

\* delete_record after the pre-image came back as old: queue or execute
DeleteSelected(t, k, where, auto_commit, old) ==
    IF old.err # NoErr THEN Out([t EXCEPT !.g.db[k] = old.s], old.err, 0)
    ELSE IF ~auto_commit
    THEN Out([t EXCEPT !.g.db[k] = old.s,
                       !.pending = @ \o DeleteChanges(old.rows, where)],
             NoErr, Len(old.rows))
    ELSE Deleted(t, k, old, delete(old.s, where))

\* TableService.delete_record
delete_record(t, where, auto_commit) ==
    LET k == get_active_repository(t.g) IN
    IF k = NoDb THEN Out(t, "DatabaseError", 0)
    ELSE IF t.g.readonly THEN Out(t, "ReadOnlyError", 0)
    ELSE DeleteSelected(t, k, where, auto_commit, select(t.g.db[k], where))

RECURSIVE RunChanges(_, _, _)
RECURSIVE RunChangesNewestFirst(_, _, _)

\* commit_changes, the loop after one change came back as r: an exception
\* leaves the loop, otherwise the change is counted and the rest is run
RunRest(r, rest, count) ==
    IF r.err # NoErr THEN Out(r.s, r.err, count)
    ELSE RunChanges(r.s, rest, count + 1)

\* RunChanges taking the queue from its newest end
RunChangesNewestFirst(s, changes, count) ==
    IF changes = <<>> THEN Out(s, NoErr, count)
    ELSE LET r == ApplyChange(s, Last(changes)) IN
         IF r.err # NoErr THEN Out(r.s, r.err, count)
         ELSE RunChangesNewestFirst(r.s, Front(changes), count + 1)

\* TableService.commit_changes, the loop over the queue inside the scope:
\* stops at the first change that raises; count is the number applied so far
RunChanges(s, changes, count) ==
    IF changes = <<>> THEN Out(s, NoErr, count)
    ELSE RunRest(ApplyChange(s, Head(changes)), Tail(changes), count)

\* commit_changes after the scope was left as x: the queue is cleared and the
\* count returned only when the scope ended normally
CommitExit(t, k, body, x) ==
    IF x.err # NoErr THEN Out([t EXCEPT !.g.db[k] = x.s], x.err, 0)
    ELSE Out([t EXCEPT !.g.db[k] = x.s, !.pending = <<>>], NoErr, body.ret)

\* commit_changes after the loop ended as body: the scope's exit
CommitBody(t, k, body) == CommitExit(t, k, body, transaction_exit(body.t, body.err))

\* commit_changes after the scope was entered as e: the loop
CommitScope(t, k, e) ==
    IF e.err # NoErr THEN Out([t EXCEPT !.g.db[k] = e.s], e.err, 0)
    ELSE CommitBody(t, k, RunChanges(e.s, t.pending, 0))

\* commit_changes clearing the queue whether or not the scope raised
commit_changes_clearing(t) ==
    IF t.g.readonly THEN Out(t, "ReadOnlyError", 0)
    ELSE LET k == get_active_repository(t.g) IN
    IF k = NoDb THEN Out(t, "DatabaseError", 0)
    ELSE LET e == transaction_enter(t.g.db[k]) IN
         IF e.err # NoErr THEN Out([t EXCEPT !.g.db[k] = e.s, !.pending = <<>>], e.err, 0)
         ELSE LET body == RunChanges(e.s, t.pending, 0)
                  x == transaction_exit(body.t, body.err)
              IN Out([t EXCEPT !.g.db[k] = x.s, !.pending = <<>>], x.err,
                     IF x.err # NoErr THEN 0 ELSE body.ret)

\* TableService.commit_changes
commit_changes(t) ==
    IF t.g.readonly THEN Out(t, "ReadOnlyError", 0)
    ELSE LET k == get_active_repository(t.g) IN
    IF k = NoDb THEN Out(t, "DatabaseError", 0)
    ELSE CommitScope(t, k, transaction_enter(t.g.db[k]))

\* discard_changes counting the queue after clearing it
discard_counting_after(t) == Out([t EXCEPT !.pending = <<>>], NoErr, 0)

\* TableService.discard_changes
discard_changes(t) == Out([t EXCEPT !.pending = <<>>], NoErr, Len(t.pending))

\* Undone pushing the entry back when its re-application failed
UndoneKeeping(t, k, r) ==
    IF r.err = NoErr
    THEN Out([t EXCEPT !.undo = Front(@), !.g.db[k] = r.s], NoErr, 1)
    ELSE IF r.err \in {"DatabaseError", "ReadOnlyError"}
    THEN Out([t EXCEPT !.g.db[k] = r.s], NoErr, 0)
    ELSE Out([t EXCEPT !.undo = Front(@), !.g.db[k] = r.s], r.err, 0)

\* undo_last_operation after the popped change came back as r: DatabaseError
\* and its subclass ReadOnlyError are caught, anything else propagates
Undone(t, k, r) ==
    LET t1 == [t EXCEPT !.undo = Front(@), !.g.db[k] = r.s] IN
    IF r.err = NoErr THEN Out(t1, NoErr, 1)
    ELSE IF r.err \in {"DatabaseError", "ReadOnlyError"} THEN Out(t1, NoErr, 0)
    ELSE Out(t1, r.err, 0)

\* undo_last_operation taking the oldest entry (pop(0))
undo_oldest_first(t) ==
    IF t.undo = <<>> THEN Out(t, NoErr, 0)
    ELSE IF t.g.readonly THEN Out(t, "ReadOnlyError", 0)
    ELSE LET k == get_active_repository(t.g) IN
    IF k = NoDb THEN Out(t, NoErr, 0)
    ELSE LET r == ApplyChange(t.g.db[k], Head(t.undo))
             t1 == [t EXCEPT !.undo = Tail(@), !.g.db[k] = r.s]
         IN IF r.err = NoErr THEN Out(t1, NoErr, 1)
            ELSE IF r.err \in {"DatabaseError", "ReadOnlyError"} THEN Out(t1, NoErr, 0)
            ELSE Out(t1, r.err, 0)

\* TableService.undo_last_operation
undo_last_operation(t) ==
    IF t.undo = <<>> THEN Out(t, NoErr, 0)
    ELSE IF t.g.readonly THEN Out(t, "ReadOnlyError", 0)
    ELSE LET k == get_active_repository(t.g) IN
    IF k = NoDb THEN Out(t, NoErr, 0)
    ELSE Undone(t, k, ApplyChange(t.g.db[k], Last(t.undo)))

\* ----------------------------------------------------------------- actions
Snapshot ==
    [readonly |-> readonly, active_db |-> active_db,
     disk |-> [k \in Dbs |-> db[k].disk],
     conn |-> [k \in Dbs |-> db[k].conn],
     file |-> [k \in Dbs |-> db[k].file],
     databases |-> databases, repositories |-> repositories,
     metadata_cache |-> metadata_cache,
     pending |-> pending_changes, undo |-> undo_stack]

NoStmt == Stmt(<<>>, "none", EmptyData, NoWhere)

NoBefore ==
    [op |-> "none", auto_commit |-> FALSE, err |-> NoErr, ret |-> 0,
     disk |-> [k \in Dbs |-> EmptyTable]]

\* One call: op(...) ran against database k (NoDb when it reached none), with
\* statement stmt when it is execute, and ended as out.
DoWith(op, auto_commit, k, stmt, out) ==
    /\ Len(out.t.pending) <= MaxQueue
    /\ Len(out.t.undo) <= MaxUndo
    /\ \A d \in Dbs : ~out.t.g.db[d].oob
    /\ SetService([out.t.g EXCEPT
                       !.db = [d \in Dbs |-> [out.t.g.db[d] EXCEPT !.log = <<>>]]])
    /\ pending_changes' = out.t.pending
    /\ undo_stack' = out.t.undo
    /\ last' = [op |-> op, auto_commit |-> auto_commit, db |-> k, stmt |-> stmt,
                err |-> out.err, ret |-> out.ret,
                log |-> IF k \in Dbs THEN out.t.g.db[k].log ELSE <<>>]
    /\ pre' = Snapshot
    /\ before' = IF op = "undo_last_operation"
                 THEN [op |-> last.op, auto_commit |-> last.auto_commit,
                       err |-> last.err, ret |-> last.ret, disk |-> pre.disk]
                 ELSE NoBefore
    /\ UNCHANGED SharedVars

Do(op, auto_commit, k, out) == DoWith(op, auto_commit, k, NoStmt, out)

Target == get_active_repository(Service)

InsertRecord(inputs, auto_commit) ==
    \E data \in inputs :
        Do("insert_record", auto_commit, Target, insert_record(TS, data, auto_commit))

UpdateRecord(inputs, auto_commit) ==
    \E in \in inputs :
        Do("update_record", auto_commit, Target,
           update_record(TS, in[1], in[2], auto_commit))

DeleteRecord(inputs, auto_commit) ==
    \E where \in inputs :
        Do("delete_record", auto_commit, Target, delete_record(TS, where, auto_commit))

CommitChanges == Do("commit_changes", FALSE, Target, commit_changes(TS))

DiscardChanges == Do("discard_changes", FALSE, Target, discard_changes(TS))

\* undo_last_operation popping the entry before it tests the readonly flag
UndoLastOperationPopping ==
    Do("undo_last_operation", FALSE, Target,
       IF undo_stack # <<>> /\ readonly
       THEN Out([TS EXCEPT !.undo = Front(@)], "ReadOnlyError", 0)
       ELSE undo_last_operation(TS))

UndoLastOperation == Do("undo_last_operation", FALSE, Target, undo_last_operation(TS))

OpenDatabase(k) ==
    \E set_active \in BOOLEAN :
        Do("open_database", set_active, k,
           Out([TS EXCEPT !.g = open_database(Service, k, set_active)],
               open_database_error(Service, k), 0))

\* the argument of a close_database call
CloseArgs(path) == [path |-> path]

\* close_database(path); path NoDb is close_database()
CloseDatabase(path) ==
    DoWith("close_database", FALSE, close_key(Service, path), CloseArgs(path),
           Out([TS EXCEPT !.g = close_database(Service, path)], NoErr, 0))

CloseAllDatabases ==
    Do("close_all_databases", FALSE, NoDb,
       Out([TS EXCEPT !.g = close_all_databases(Service)], NoErr, 0))

SetActiveDatabase(k) ==
    Do("set_active_database", FALSE, k,
       Out([TS EXCEPT !.g = set_active_database(Service, k)], NoErr,
           IF k \in SeqToSet(databases) THEN 1 ELSE 0))

\* somebody removes the file of a database, open or not
RemoveFile(k) ==
    /\ db[k].file # "none"
    /\ Do("remove_file", FALSE, k, Out([TS EXCEPT !.g.db[k].file = "none"], NoErr, 0))

ToggleReadonlyMode ==
    Do("toggle_readonly_mode", FALSE, NoDb,
       Out([TS EXCEPT !.g = toggle_readonly_mode(Service)],
           toggle_readonly_mode_error(Service),
           IF toggle_readonly_mode(Service).readonly THEN 1 ELSE 0))

\* refresh_metadata(db_path); db_path NoDb is refresh_metadata()
RefreshArgs(db_path) == [db_path |-> db_path]

RefreshMetadata(db_path) ==
    DoWith("refresh_metadata", FALSE, IF db_path # NoDb THEN db_path ELSE active_db,
           RefreshArgs(db_path),
           Out([TS EXCEPT !.g = refresh_metadata(Service, db_path)],
               refresh_metadata_error(Service, db_path), 0))

\* somebody writes something that is no database over the file of a database
\* that is not open
SpoilFile(k) ==
    /\ k \notin SeqToSet(databases)
    /\ db[k].file \in {"db", "new"}
    /\ Do("spoil_file", FALSE, k, Out([TS EXCEPT !.g.db[k].file = "bad"], NoErr, 0))

\* TableService.get_record: one SELECT by primary key on the active
\* repository; it returns the row (1) or None (0)
get_record(t, key_value) ==
    LET k == get_active_repository(t.g) IN
    IF k = NoDb THEN Out(t, NoErr, 0)
    ELSE LET r == select(t.g.db[k], WhereId(key_value)) IN
         Out([t EXCEPT !.g.db[k] = r.s], r.err, IF r.rows # <<>> THEN 1 ELSE 0)

GetRecord(keys) ==
    \E key_value \in keys :
        Do("get_record", FALSE, Target, get_record(TS, key_value))

\* a caller runs one statement on the DatabaseClient of an open database
ClientExecute(inputs) ==
    \E k \in SeqToSet(databases), stmt \in inputs :
        LET r == execute(db[k], stmt) IN
        DoWith("execute", FALSE, k, stmt,
               Out([TS EXCEPT !.g.db[k] = r.s], r.err, Len(r.rows)))

\* a caller uses the Repository of an open database
RepositoryInsert(inputs) ==
    \E k \in SeqToSet(repositories), data \in inputs :
        LET r == insert(db[k], data) IN
        DoWith("insert", FALSE, k, Stmt(<<>>, "insert", data, NoWhere),
               Out([TS EXCEPT !.g.db[k] = r.s], r.err, r.lastrowid))

RepositoryUpdate(inputs) ==
    \E k \in SeqToSet(repositories), in \in inputs :
        LET r == update(db[k], in[1], in[2]) IN
        DoWith("update", FALSE, k, Stmt(<<>>, "update", in[1], in[2]),
               Out([TS EXCEPT !.g.db[k] = r.s], r.err, r.rowcount))

\* the arguments of a transaction block or an execute_many call
ScopeArgs(body, raises) == [body |-> body, raises |-> raises]

\* a caller runs a transaction block on the DatabaseClient of an open database
ClientTransaction(bodies) ==
    \E k \in SeqToSet(databases), body \in bodies, raises \in BOOLEAN :
        LET r == transaction(db[k], body, raises) IN
        DoWith("transaction", FALSE, k, ScopeArgs(body, raises),
               Out([TS EXCEPT !.g.db[k] = r.s], r.err, 0))

\* a caller runs execute_many on the DatabaseClient of an open database
ClientExecuteMany(batches) ==
    \E k \in SeqToSet(databases), batch \in batches :
        LET r == execute_many(db[k], batch) IN
        DoWith("execute_many", FALSE, k, ScopeArgs(batch, FALSE),
               Out([TS EXCEPT !.g.db[k] = r.s], r.err, r.rowcount))

\* a caller connects / disconnects the DatabaseClient of an open database
ClientConnect ==
    \E k \in SeqToSet(databases) :
        Do("connect", FALSE, k,
           Out([TS EXCEPT !.g.db[k] = connect(db[k])],
               IF ConnectFails(db[k]) THEN "DatabaseError" ELSE NoErr, 0))

ClientDisconnect ==
    \E k \in SeqToSet(databases) :
        Do("disconnect", FALSE, k,
           Out([TS EXCEPT !.g.db[k] = disconnect(db[k])], NoErr, 0))

\* ------------------------------------------- one client, several threads
Threads == 1..MaxThreads

NoHandle == 0       \* _connection is None
Free == 0           \* the lock is held by no thread

\* DatabaseClient.__init__: no connection, a fresh Lock; every thread is
\* outside connect and disconnect
InitShared ==
    /\ lock = Free
    /\ connection = NoHandle
    /\ handles = {}
    /\ thread = [t \in Threads |-> [pc |-> "idle", h |-> NoHandle]]

\* sqlite3.connect returns a connection object that is no other live one
NewHandle == CHOOSE h \in 1..(Cardinality(handles) + 2) :
                 h \notin handles \cup {connection}

At(t, pc) == thread[t].pc = pc

Goto(t, pc) == thread' = [thread EXCEPT ![t].pc = pc]

\* `with self._lock:` entered without waiting for the lock
AcquireUnguarded(t) == TRUE

\* `with self._lock:` blocks until the lock is free
CanAcquire(t) == lock = Free

\* a thread calls connect() or disconnect()
CallConnect(t) ==
    /\ At(t, "idle")
    /\ Goto(t, "connect:lock")
    /\ UNCHANGED <<ServiceVars, lock, connection, handles>>

CallDisconnect(t) ==
    /\ At(t, "idle")
    /\ Goto(t, "disconnect:lock")
    /\ UNCHANGED <<ServiceVars, lock, connection, handles>>

\* with self._lock: (entry)
Acquire(t) ==
    /\ At(t, "connect:lock") \/ At(t, "disconnect:lock")
    /\ CanAcquire(t)
    /\ lock' = t
    /\ Goto(t, IF At(t, "connect:lock") THEN "connect:test" ELSE "disconnect:test")
    /\ UNCHANGED <<ServiceVars, connection, handles>>

\* connect: if self._connection is None
ConnectTest(t) ==
    /\ At(t, "connect:test")
    /\ Goto(t, IF connection = NoHandle THEN "connect:open" ELSE "unlock")
    /\ UNCHANGED <<ServiceVars, lock, connection, handles>>

\* connect: sqlite3.connect(uri, ...)
ConnectOpen(t) ==
    /\ At(t, "connect:open")
    /\ handles' = handles \cup {NewHandle}
    /\ thread' = [thread EXCEPT ![t] = [pc |-> "connect:assign", h |-> NewHandle]]
    /\ UNCHANGED <<ServiceVars, lock, connection>>

\* connect: self._connection = <the new connection>
ConnectAssign(t) ==
    /\ At(t, "connect:assign")
    /\ connection' = thread[t].h
    /\ thread' = [thread EXCEPT ![t] = [pc |-> "unlock", h |-> NoHandle]]
    /\ UNCHANGED <<ServiceVars, lock, handles>>

\* disconnect: if self._connection
DisconnectTest(t) ==
    /\ At(t, "disconnect:test")
    /\ Goto(t, IF connection # NoHandle THEN "disconnect:close" ELSE "unlock")
    /\ UNCHANGED <<ServiceVars, lock, connection, handles>>

\* disconnect: self._connection.close()
DisconnectClose(t) ==
    /\ At(t, "disconnect:close")
    /\ handles' = handles \ {connection}
    /\ Goto(t, "disconnect:clear")
    /\ UNCHANGED <<ServiceVars, lock, connection>>

\* disconnect: self._connection = None
DisconnectClear(t) ==
    /\ At(t, "disconnect:clear")
    /\ connection' = NoHandle
    /\ Goto(t, "unlock")
    /\ UNCHANGED <<ServiceVars, lock, handles>>

\* with self._lock: (exit), and the call returns
Release(t) ==
    /\ At(t, "unlock")
    /\ lock' = Free
    /\ Goto(t, "idle")
    /\ UNCHANGED <<ServiceVars, connection, handles>>

\* ------------------------------------------------------------ initial state
\* After DatabaseService(readonly) and TableService(database_service): nothing
\* is open; the files hold any of the given tables.
InitWith(tables1, tables2) ==
    /\ readonly \in BOOLEAN
    /\ databases = <<>>
    /\ repositories = <<>>
    /\ active_db = NoDb
    /\ metadata_cache = {}
    /\ db \in {[k \in Dbs |-> NewClient(TRUE, IF k = "d1" THEN t1 ELSE t2)] :
                   t1 \in tables1, t2 \in tables2}
    /\ pending_changes = <<>>
    /\ undo_stack = <<>>
    /\ last = [op |-> "init", auto_commit |-> FALSE, db |-> NoDb, stmt |-> NoStmt,
               err |-> NoErr, ret |-> 0, log |-> <<>>]
    /\ pre = Snapshot
    /\ before = NoBefore
    /\ InitShared

\* --------------------------------------------- the pending queue and commit
CommitInserts == {EmptyData, [id |-> NoId, name |-> "a"], [id |-> 1, name |-> "b"]}

CommitUpdates ==
    {<<[id |-> 2, name |-> NoName], WhereId(1)>>,
     <<[id |-> NoId, name |-> "b"], WhereAll>>}

CommitDeletes == {WhereId(2)}

InitCommit == InitWith(Tables, {EmptyTable})

NextCommit ==
    \/ OpenDatabase("d1")
    \/ InsertRecord(CommitInserts, FALSE)
    \/ UpdateRecord(CommitUpdates, FALSE)
    \/ DeleteRecord(CommitDeletes, FALSE)
    \/ CommitChanges
    \/ DiscardChanges

SpecCommit == InitCommit /\ [][NextCommit]_vars

\* the last call was commit_changes and it raised / returned
CommitFailed == last.op = "commit_changes" /\ last.err # NoErr

CommitSucceeded == last.op = "commit_changes" /\ last.err = NoErr

DiskUnchanged == \A k \in Dbs : db[k].disk = pre.disk[k]

\* C1: commit_changes is all-or-nothing: when it raises on a queue of two or
\* more changes, none of the queued changes is visible in the database (the
\* committed contents are those from before the call).
C1_CommitAllOrNothing ==
    (CommitFailed /\ Len(pre.pending) >= 2) => DiskUnchanged

\* C2: when commit_changes fails, the pending queue holds exactly the entries
\* it held before the call, in the same order.
C2_FailedCommitKeepsQueue == CommitFailed => pending_changes = pre.pending

\* a change raised inside the transaction scope, after an earlier one ran
C2_Witness ==
    /\ CommitFailed
    /\ last.err = "DatabaseError"
    /\ Len(last.log) >= 3
    /\ Len(pending_changes) >= 2

\* the statement commit_changes runs for a queued change
RunsAs(stmt, change) ==
    /\ stmt.op = change.operation
    /\ change.operation \in {"insert", "update"} => stmt.data = change.new_data
    /\ change.operation \in {"update", "delete"} => stmt.where = change.where

\* C3: a successful commit_changes has executed the queued changes in queue
\* order (after the BEGIN of its scope), leaves the queue empty and returns
\* the length the queue had.
C3_CommitFifo ==
    CommitSucceeded =>
        /\ pending_changes = <<>>
        /\ last.ret = Len(pre.pending)
        /\ Len(last.log) = Len(pre.pending) + 1
        /\ \A j \in 1..Len(pre.pending) : RunsAs(last.log[j + 1], pre.pending[j])

\* a successful commit of three changes, not all alike
C3_Witness ==
    /\ CommitSucceeded
    /\ Len(pre.pending) = 3
    /\ pre.pending[1].operation # pre.pending[3].operation
    /\ ~DiskUnchanged

\* C10: after a successful commit_changes of a non-empty queue the undo stack
\* has gained an inverse entry for each change applied.
C10_CommitPushesUndo ==
    (CommitSucceeded /\ pre.pending # <<>>) =>
        Len(undo_stack) = Len(pre.undo) + Len(pre.pending)

\* ------------------------------------------- immediate mutations and undo
UndoInserts == {EmptyData, [id |-> NoId, name |-> "a"], [id |-> 1, name |-> "b"]}

UndoUpdates ==
    {<<[id |-> 2, name |-> NoName], WhereId(1)>>,
     <<[id |-> NoId, name |-> "b"], WhereAll>>,
     <<[id |-> NoId, name |-> "b"], WhereName("a")>>}

UndoDeletes == {WhereId(1), WhereAll}

InitUndo == InitWith(Tables, {EmptyTable})

NextUndo ==
    \/ OpenDatabase("d1")
    \/ InsertRecord(UndoInserts, TRUE)
    \/ UpdateRecord(UndoUpdates, TRUE)
    \/ DeleteRecord(UndoDeletes, TRUE)
    \/ UndoLastOperation

SpecUndo == InitUndo /\ [][NextUndo]_vars

Mutations == {"insert_record", "update_record", "delete_record"}

UndoCalled == last.op = "undo_last_operation"

\* the call before the undo was an immediate mutation that succeeded
UndoFollowsMutation ==
    /\ UndoCalled
    /\ before.op \in Mutations
    /\ before.auto_commit
    /\ before.err = NoErr

RestoredTo(disk) == \A k \in Dbs : db[k].disk = disk[k]

\* C7: one undo_last_operation right after a successful immediate
\* insert_record, update_record or delete_record leaves the table with the
\* contents it had before that mutation.
C7_UndoReversesMutation == UndoFollowsMutation => RestoredTo(before.disk)

\* C8: right after an immediate delete_record that deleted exactly one row,
\* undo_last_operation returns true, having re-inserted the row with the
\* values (primary key included) the snapshot held, and the table has its
\* pre-delete contents.
C8_UndoSingleDelete ==
    (UndoFollowsMutation /\ before.op = "delete_record" /\ before.ret = 1) =>
        /\ last.err = NoErr
        /\ last.ret = 1
        /\ Len(last.log) = 1
        /\ last.log[1].op = "insert"
        /\ last.log[1].data.id \in Ids
        /\ before.disk[last.db][last.log[1].data.id] = last.log[1].data.name
        /\ RestoredTo(before.disk)

\* the deleted row was not the one with the largest id
C8_Witness ==
    /\ UndoFollowsMutation
    /\ before.op = "delete_record"
    /\ before.ret = 1
    /\ last.db \in Dbs
    /\ \E i \in Ids : i > last.log[1].data.id /\ db[last.db].disk[i] # NoName

\* undo_last_operation reached the repository with an entry
UndoApplied == UndoCalled /\ last.log # <<>>

\* C9: an undo_last_operation that applies an entry applies the most recently
\* pushed remaining one and removes exactly it from the stack.
C9_UndoLifo ==
    UndoApplied =>
        /\ undo_stack = Front(pre.undo)
        /\ Len(last.log) = 1
        /\ RunsAs(last.log[1], Last(pre.undo))

\* the stack held three entries, the oldest and the newest of different kinds
C9_Witness ==
    /\ UndoApplied
    /\ Len(pre.undo) = 3
    /\ pre.undo[1].operation # pre.undo[3].operation

\* what the engine answers to one statement on the table image t
EngineOk(t, stmt) ==
    CASE stmt.op = "insert" -> SqlInsert(t, stmt.data).ok
      [] stmt.op = "update" -> SqlUpdate(t, stmt.data, stmt.where).ok
      [] stmt.op = "delete" -> SqlDelete(t, stmt.where).ok
      [] OTHER -> TRUE

\* undo_last_operation popped an entry: the stack was not empty, the registry
\* writable and a repository active
UndoPopped ==
    /\ UndoCalled
    /\ pre.undo # <<>>
    /\ ~pre.readonly
    /\ last.db \in Dbs

\* re-applying the popped entry failed: its statement never reached the engine,
\* or the engine, on the table as the call found it, refuses it
ReapplyFails ==
    /\ UndoPopped
    /\ (last.log = <<>> \/ ~EngineOk(pre.disk[last.db], last.log[1]))

\* C11: when re-applying the popped undo entry fails, undo_last_operation
\* returns false without raising and the entry is gone: the stack is the one
\* from before the call less its last entry.
C11_FailedUndoDiscardsEntry ==
    ReapplyFails =>
        /\ last.err = NoErr
        /\ last.ret = 0
        /\ undo_stack = Front(pre.undo)

\* the failed entry was not the only one on the stack
C11_Witness == ReapplyFails /\ Len(pre.undo) >= 2 /\ last.ret = 0

\* ------------------------------------------- statements run on the client
LeadingSpace == {<<>>, <<"\n", " ">>}

\* a keyword as a caller may spell it
Spellings(kw) == {kw, Lower(kw), <<kw[1]>> \o Lower(Tail(kw))}

Texts(kw) == {ws \o w \o <<" ">> : ws \in LeadingSpace, w \in Spellings(kw)}

Statements(kw, op, data, where) == {Stmt(text, op, data, where) : text \in Texts(kw)}

ClientStatements ==
    Statements(Chars_INSERT, "insert", [id |-> 1, name |-> "b"], NoWhere)
    \cup Statements(Chars_UPDATE, "update", [id |-> NoId, name |-> "b"], WhereAll)
    \cup Statements(Chars_DELETE, "delete", EmptyData, WhereId(1))
    \cup Statements(Chars_CREATE, "ddl", EmptyData, NoWhere)
    \cup Statements(Chars_DROP, "ddl", EmptyData, NoWhere)
    \cup Statements(Chars_ALTER, "ddl", EmptyData, NoWhere)
    \cup Statements(Chars_SELECT, "select", EmptyData, WhereAll)
    \cup Statements(Chars_PRAGMA, "pragma", EmptyData, NoWhere)
    \cup Statements(Chars_REPLACE, "replace", [id |-> 1, name |-> "a"], NoWhere)

OneRow == [i \in Ids |-> IF i = 1 THEN "a" ELSE NoName]

InitClient == InitWith({EmptyTable, OneRow}, {EmptyTable})

NextClient ==
    \/ OpenDatabase("d1")
    \/ ToggleReadonlyMode
    \/ ClientConnect
    \/ ClientDisconnect
    \/ ClientExecute(ClientStatements)

SpecClient == InitClient /\ [][NextClient]_vars

ExecuteCalled == last.op = "execute"

WriteClassified == {"insert", "update", "delete", "ddl"}

\* C4: on a readonly Client, execute of a statement whose leading keyword is
\* INSERT, UPDATE, DELETE, CREATE, DROP or ALTER (any case, after whitespace)
\* raises ReadOnlyError with the connection as it was and nothing run by the
\* engine; SELECT and PRAGMA statements are run and return their result.
C4_ReadonlyClientRejectsWrites ==
    (ExecuteCalled /\ db[last.db].readonly) =>
        /\ last.stmt.op \in WriteClassified =>
               /\ last.err = "ReadOnlyError"
               /\ last.log = <<>>
               /\ db[last.db].conn = pre.conn[last.db]
               /\ DiskUnchanged
        /\ last.stmt.op \in {"select", "pragma"} =>
               /\ last.err = NoErr
               /\ last.log = <<last.stmt>>
        /\ last.stmt.op = "select" =>
               last.ret = Cardinality(RowIds(db[last.db].disk))

\* a lower-case write after whitespace, refused on a Client not yet connected
C4_Witness ==
    /\ ExecuteCalled
    /\ db[last.db].readonly
    /\ last.stmt.op = "delete"
    /\ Head(last.stmt.text) = "\n"
    /\ last.stmt.text[3] = "d"
    /\ last.err = "ReadOnlyError"
    /\ db[last.db].conn = "none"

\* ------------------------------------------------------ the whole service
\* every input works on the row with id 1
Inserts == {[id |-> 1, name |-> "a"]}

Updates == {<<[id |-> NoId, name |-> "a"], WhereId(1)>>}

Deletes == {WhereId(1)}

ServiceStatements ==
    {Stmt(Chars_INSERT \o <<" ">>, "insert", [id |-> 1, name |-> "a"], NoWhere),
     Stmt(Chars_REPLACE \o <<" ">>, "replace", [id |-> 1, name |-> "a"], NoWhere),
     Stmt(Chars_WITH \o <<" ">>, "insert", [id |-> 1, name |-> "a"], NoWhere),
     Stmt(Chars_SELECT \o <<" ">>, "select", EmptyData, WhereAll)}

Init == InitWith({EmptyTable, OneRow}, {EmptyTable})

\* the queue and the undo stack are kept within ServiceQueue and ServiceUndo
Capped(Call) ==
    /\ Call
    /\ Len(pending_changes') <= ServiceQueue
    /\ Len(undo_stack') <= ServiceUndo

Next ==
    \/ Capped(OpenDatabase("d1"))
    \/ Capped(ToggleReadonlyMode)
    \/ Capped(InsertRecord(Inserts, TRUE))
    \/ Capped(InsertRecord(Inserts, FALSE))
    \/ Capped(UpdateRecord(Updates, TRUE))
    \/ Capped(UpdateRecord(Updates, FALSE))
    \/ Capped(DeleteRecord(Deletes, TRUE))
    \/ Capped(DeleteRecord(Deletes, FALSE))
    \/ Capped(CommitChanges)
    \/ Capped(DiscardChanges)
    \/ Capped(UndoLastOperation)
    \/ Capped(ClientExecute(ServiceStatements))

Spec == Init /\ [][Next]_vars

\* C5: no call that starts while the registry's readonly flag is set changes
\* the contents of any database.
C5_ReadonlyKeepsContents == pre.readonly => DiskUnchanged

\* the engine refused a write the keyword check let through, in readonly mode
\* entered with pending changes and undo entries outstanding
C5_Witness ==
    /\ pre.readonly
    /\ ExecuteCalled
    /\ last.stmt.text = Chars_WITH \o <<" ">>
    /\ last.err = "DatabaseError"
    /\ pending_changes # <<>>
    /\ undo_stack # <<>>

MutationCalled == last.op \in Mutations

Untouched ==
    /\ pending_changes = pre.pending
    /\ undo_stack = pre.undo
    /\ last.log = <<>>
    /\ DiskUnchanged

\* C6, as claimed: whenever the registry's readonly flag is set, insert_record,
\* update_record and delete_record fail with ReadOnlyError, nothing queued,
\* pushed or executed.
C6_ReadonlyRaisesReadOnlyError ==
    (MutationCalled /\ pre.readonly) => (last.err = "ReadOnlyError" /\ Untouched)

\* C6, amended: with the readonly flag set they fail with ReadOnlyError when a
\* database is active and with DatabaseError when none is, nothing queued,
\* pushed or executed either way.
C6_ReadonlyRaises ==
    (MutationCalled /\ pre.readonly) =>
        /\ last.err = IF pre.active_db = NoDb THEN "DatabaseError" ELSE "ReadOnlyError"
        /\ Untouched

\* refused in readonly mode entered with queue and undo stack non-empty
C6_Witness ==
    /\ MutationCalled
    /\ pre.readonly
    /\ last.err = "ReadOnlyError"
    /\ last.op = "update_record"
    /\ ~last.auto_commit
    /\ pending_changes # <<>>
    /\ undo_stack # <<>>

\* ------------------------------------------------------------- pagination
MaxRows == 5
MaxPageSize == 3

\* UIConfig.page_size, the default of get_page's page_size
default_page_size == 100

Min(a, b) == IF a <= b THEN a ELSE b

Max(a, b) == IF a >= b THEN a ELSE b

\* math.ceil(a / b) for a >= 0 and b > 0
Ceil(a, b) == IF (a \div b) * b = a THEN a \div b ELSE (a \div b) + 1

\* total_pages computed by rounding down
TotalPagesFloor(total_rows, page_size) ==
    IF total_rows > 0 THEN total_rows \div page_size ELSE 1

\* get_page: total_pages
TotalPages(total_rows, page_size) ==
    IF total_rows > 0 THEN Ceil(total_rows, page_size) ELSE 1

\* get_page: page = max(1, min(page, total_pages))
ClampPage(page, total_pages) == Max(1, Min(page, total_pages))

\* the window starting at the row with position offset instead of after it
WindowFromOffset(rows, limit, offset) ==
    LET from == IF offset # 0 THEN offset ELSE 1
        to == IF limit # 0 THEN Min(Len(rows), from + limit - 1) ELSE Len(rows)
    IN SubSeq(rows, from, to)

\* Repository.select on the filtered, ordered rows: LIMIT is added when limit
\* is truthy, OFFSET when limit and offset are; the engine skips offset rows and
\* yields at most limit
Window(rows, limit, offset) ==
    LET skip == IF limit # 0 /\ offset # 0 THEN offset ELSE 0
        to == IF limit # 0 THEN Min(Len(rows), skip + limit) ELSE Len(rows)
    IN SubSeq(rows, skip + 1, to)

\* PagedResult
PagedResult(data, page, page_size, total_rows, total_pages) ==
    [data |-> data, page |-> page, page_size |-> page_size,
     total_rows |-> total_rows, total_pages |-> total_pages,
     has_next |-> page < total_pages, has_previous |-> page > 1]

\* get_page once the count query came back as total_rows; rows is what the
\* engine yields for the table under the WHERE and ORDER BY of the call
Paged(rows, total_rows, page, page_size) ==
    PagedResult(Window(rows, page_size,
                       (ClampPage(page, TotalPages(total_rows, page_size)) - 1)
                       * page_size),
                ClampPage(page, TotalPages(total_rows, page_size)),
                page_size, total_rows, TotalPages(total_rows, page_size))

\* TableService.get_page; page_size 0 stands for None (and for 0, which the
\* code treats alike)
get_page(t, rows, page, page_size) ==
    IF get_active_repository(t.g) = NoDb THEN Out(t, "DatabaseError", 0)
    ELSE Out(t, NoErr,
             Paged(rows, Len(rows), page,
                   IF page_size # 0 THEN page_size ELSE default_page_size))

\* the arguments of a get_page call, with the rows the table yields
PageArgs(rows, page, page_size) == [rows |-> rows, page |-> page, page_size |-> page_size]

GetPage(tables, pages, sizes) ==
    \E rows \in tables, page \in pages, page_size \in sizes :
        DoWith("get_page", FALSE, Target, PageArgs(rows, page, page_size),
               get_page(TS, rows, page, page_size))

\* tables of 0 to MaxRows rows, a row being known by its position in the order
PageTables == {[i \in 1..n |-> i] : n \in 0..MaxRows}

PageRequests == -1..(MaxRows + 1)

PageSizes == 0..MaxPageSize

InitPage == InitWith({OneRow}, {EmptyTable})

NextPage ==
    \/ OpenDatabase("d1")
    \/ GetPage(PageTables, PageRequests, PageSizes)

SpecPage == InitPage /\ [][NextPage]_vars

\* get_page returned a page for a positive page_size
PageReturned ==
    /\ last.op = "get_page"
    /\ last.err = NoErr
    /\ last.stmt.page_size > 0

\* n is the least number of pages of size page_size that hold total_rows rows
IsCeiling(n, total_rows, page_size) ==
    /\ n * page_size >= total_rows
    /\ (n - 1) * page_size < total_rows

\* C12: for page_size > 0 and total_rows >= 0, get_page reports
\* total_pages = max(1, ceil(total_rows / page_size)) and a page that is the
\* requested page clamped into [1, total_pages].
C12_TotalPagesAndClamp ==
    PageReturned =>
        /\ last.ret.total_rows = Len(last.stmt.rows)
        /\ IF last.ret.total_rows = 0 THEN last.ret.total_pages = 1
           ELSE IsCeiling(last.ret.total_pages, last.ret.total_rows, last.stmt.page_size)
        /\ last.stmt.page < 1 => last.ret.page = 1
        /\ last.stmt.page > last.ret.total_pages => last.ret.page = last.ret.total_pages
        /\ last.stmt.page \in 1..last.ret.total_pages => last.ret.page = last.stmt.page

\* a request beyond a last page that is only partly filled
C12_Witness ==
    /\ PageReturned
    /\ last.stmt.page > last.ret.total_pages
    /\ last.ret.total_pages >= 2
    /\ last.ret.total_pages * last.stmt.page_size > last.ret.total_rows

\* the rows of pages 1..p of one table, page after page
RECURSIVE PagesUpTo(_, _, _)
PagesUpTo(rows, page_size, p) ==
    IF p = 0 THEN <<>>
    ELSE PagesUpTo(rows, page_size, p - 1)
         \o Paged(rows, Len(rows), p, page_size).data

\* C13: get_page returns the rows at positions offset+1 ..
\* min(offset+page_size, total_rows) of the filtered, ordered table, offset
\* being (page-1)*page_size for the clamped page; has_next is page < total_pages
\* and has_previous is page > 1; pages 1..total_pages of one table hold at most
\* page_size rows each and, one after the other, every row exactly once.
C13_PageRows ==
    PageReturned =>
        /\ last.ret.data =
               SubSeq(last.stmt.rows,
                      (last.ret.page - 1) * last.stmt.page_size + 1,
                      Min((last.ret.page - 1) * last.stmt.page_size + last.stmt.page_size,
                          last.ret.total_rows))
        /\ last.ret.has_next = (last.ret.page < last.ret.total_pages)
        /\ last.ret.has_previous = (last.ret.page > 1)
        /\ \A p \in 1..last.ret.total_pages :
               Len(Paged(last.stmt.rows, Len(last.stmt.rows), p, last.stmt.page_size).data)
                   <= last.stmt.page_size
        /\ PagesUpTo(last.stmt.rows, last.stmt.page_size, last.ret.total_pages)
               = last.stmt.rows

\* a middle page of a table whose last page is only partly filled
C13_Witness ==
    /\ PageReturned
    /\ last.ret.has_next
    /\ last.ret.has_previous
    /\ last.ret.page = last.stmt.page
    /\ last.ret.total_pages * last.stmt.page_size > last.ret.total_rows
    /\ Len(last.ret.data) = last.stmt.page_size

\* ------------------------------------------------------------------ search
MaxColumns == 2

\* declared column types, as PRAGMA table_info reports them
Chars_INTEGER == <<"I", "N", "T", "E", "G", "E", "R">>
Chars_TEXT == <<"T", "E", "X", "T">>
Chars_VARCHAR == <<"V", "A", "R", "C", "H", "A", "R">>
Chars_CHAR == <<"C", "H", "A", "R">>
Chars_BLOB == <<"B", "L", "O", "B">>

\* the type tuple of TableService.search_table
table_search_types == {Chars_TEXT, Chars_VARCHAR, Chars_CHAR}

\* the type tuple of Repository.search
repository_search_types == {Chars_TEXT, Chars_VARCHAR, Chars_CHAR, Chars_BLOB}

\* [col['name'] for col in schema.columns if col['type'].upper() in types];
\* a schema is the sequence of its columns' declared types and a column is
\* named by its position
ColumnsOfTypes(schema, types) ==
    SelectSeq([c \in 1..Len(schema) |-> c], LAMBDA c : Upper(schema[c]) \in types)

\* Repository.search: the columns searched
search_columns(schema, columns) ==
    IF columns # <<>> THEN columns ELSE ColumnsOfTypes(schema, repository_search_types)

\* TableService.search_table: the columns searched
search_table_columns(schema, columns) ==
    IF columns # <<>> THEN columns ELSE ColumnsOfTypes(schema, table_search_types)

\* row r holds the search term in column c (c LIKE '%term%'): a row is the
\* number whose binary digits say so column by column
Like(r, c) == (r \div (2 ^ (c - 1))) % 2 = 1

\* the rows the engine yields for c1 LIKE ? OR c2 LIKE ? ...
Matched(rows, columns) ==
    SelectSeq(rows, LAMBDA r : \E j \in 1..Len(columns) : Like(r, columns[j]))

\* Repository.search
search(schema, rows, columns) ==
    IF search_columns(schema, columns) = <<>> THEN <<>>
    ELSE Matched(rows, search_columns(schema, columns))

\* search_table with no searchable column reporting no page at all
EmptyPagedZero(page_size) ==
    [data |-> <<>>, page |-> 1, page_size |-> page_size, total_rows |-> 0,
     total_pages |-> 0, has_next |-> FALSE, has_previous |-> FALSE]

\* search_table with no searchable column: the PagedResult built in place
EmptyPaged(page_size) ==
    [data |-> <<>>, page |-> 1, page_size |-> page_size, total_rows |-> 0,
     total_pages |-> 1, has_next |-> FALSE, has_previous |-> FALSE]

\* TableService.search_table
search_table(t, schema, rows, columns, page, page_size) ==
    IF get_active_repository(t.g) = NoDb THEN Out(t, "DatabaseError", 0)
    ELSE IF search_table_columns(schema, columns) = <<>>
    THEN Out(t, NoErr,
             EmptyPaged(IF page_size # 0 THEN page_size ELSE default_page_size))
    ELSE get_page(t, Matched(rows, search_table_columns(schema, columns)),
                  page, page_size)

\* the arguments of a search_table call, with the table's schema and rows
SearchArgs(schema, rows, columns, page, page_size) ==
    [schema |-> schema, rows |-> rows, columns |-> columns, page |-> page,
     page_size |-> page_size]

SearchTable(schemas, columnss, pages, sizes) ==
    \E schema \in schemas, columns \in columnss, page \in pages, page_size \in sizes :
        \E rows \in {[i \in 1..(2 ^ Len(schema)) |-> i - 1]} :
            DoWith("search_table", FALSE, Target,
                   SearchArgs(schema, rows, columns, page, page_size),
                   search_table(TS, schema, rows, columns, page, page_size))

SchemaTypes ==
    {Chars_INTEGER, Lower(Chars_TEXT), Chars_VARCHAR, Chars_BLOB}

\* tables of 1 to MaxColumns columns
Schemas == UNION {[1..n -> SchemaTypes] : n \in 1..MaxColumns}

InitSearch == InitWith({OneRow}, {EmptyTable})

NextSearch ==
    \/ OpenDatabase("d1")
    \/ SearchTable(Schemas, {<<>>, <<1>>}, 1..2, 0..1)

SpecSearch == InitSearch /\ [][NextSearch]_vars

\* search_table was called without columns and did not raise "no database"
SearchedAllColumns ==
    /\ last.op = "search_table"
    /\ last.db \in Dbs
    /\ last.stmt.columns = <<>>

\* no column of the schema is declared TEXT, VARCHAR or CHAR (in any case)
NoTextColumn(schema) ==
    \A c \in 1..Len(schema) : Upper(schema[c]) \notin {Chars_TEXT, Chars_VARCHAR, Chars_CHAR}

\* C14, as claimed: search_table without columns on a table with no text-typed
\* column raises nothing and returns no rows, total_rows = 0, total_pages = 0.
C14_NoTextColumnZeroPages ==
    (SearchedAllColumns /\ NoTextColumn(last.stmt.schema)) =>
        /\ last.err = NoErr
        /\ last.ret.data = <<>>
        /\ last.ret.total_rows = 0
        /\ last.ret.total_pages = 0

\* C14, amended: it raises nothing and returns no rows, total_rows = 0 and
\* total_pages = 1, on page 1 with no next and no previous page.
C14_NoTextColumnOnePage ==
    (SearchedAllColumns /\ NoTextColumn(last.stmt.schema)) =>
        /\ last.err = NoErr
        /\ last.ret.data = <<>>
        /\ last.ret.total_rows = 0
        /\ last.ret.total_pages = 1
        /\ last.ret.page = 1
        /\ ~last.ret.has_next
        /\ ~last.ret.has_previous

\* two columns, none of them text-typed, and page 2 asked for
C14_Witness ==
    /\ SearchedAllColumns
    /\ NoTextColumn(last.stmt.schema)
    /\ Len(last.stmt.schema) = 2
    /\ last.stmt.page = 2
    /\ last.err = NoErr

\* C15: without columns, search_table searches exactly the columns that
\* Repository.search searches on the same schema, and so finds the same rows.
C15_SameSearchColumns ==
    (SearchedAllColumns /\ last.err = NoErr) =>
        /\ SeqToSet(search_table_columns(last.stmt.schema, <<>>))
               = SeqToSet(search_columns(last.stmt.schema, <<>>))
        /\ last.ret.total_rows = Len(search(last.stmt.schema, last.stmt.rows, <<>>))

\* ------------------------------------------------------------ the registry
InitRegistry == InitWith({OneRow}, {EmptyTable})

NextRegistry ==
    \/ \E k \in Dbs : OpenDatabase(k)
    \/ \E path \in Dbs \cup {NoDb} : CloseDatabase(path)
    \/ CloseAllDatabases
    \/ ToggleReadonlyMode
    \/ \E k \in Dbs : SetActiveDatabase(k)
    \/ \E k \in Dbs : RemoveFile(k)
    \/ ClientDisconnect
    \/ ClientExecute({Begin})

SpecRegistry == InitRegistry /\ [][NextRegistry]_vars

ToggleCalled == last.op = "toggle_readonly_mode"

\* the open databases whose file was still there when the last call started
StillThere == SelectSeq(pre.databases, LAMBDA k : pre.file[k] # "none")

\* C16, as claimed: after toggle_readonly_mode the set of open keys and the
\* active database are what they were before the call.
C16_TogglePreservesOpenSet ==
    ToggleCalled =>
        /\ SeqToSet(databases) = SeqToSet(pre.databases)
        /\ active_db = pre.active_db

\* C16, amended: after toggle_readonly_mode returns, the open keys are those
\* open before whose file still exists, in their order, and the active
\* database is the one before if it is among them and none otherwise; with
\* every file in place the set of open keys and the active database are what
\* they were.
C16_TogglePreservesExisting ==
    (ToggleCalled /\ last.err = NoErr) =>
        /\ databases = StillThere
        /\ repositories = StillThere
        /\ active_db = IF pre.active_db \in SeqToSet(StillThere)
                       THEN pre.active_db ELSE NoDb
        /\ StillThere = pre.databases =>
               /\ SeqToSet(databases) = SeqToSet(pre.databases)
               /\ active_db = pre.active_db

\* both databases open with their files in place, the second one active
C16_Witness ==
    /\ ToggleCalled
    /\ Len(pre.databases) = 2
    /\ StillThere = pre.databases
    /\ pre.active_db = pre.databases[2]
    /\ active_db = pre.active_db

\* C17: toggle_readonly_mode returns the negation of the flag it found, and
\* after any sequence of open_database, close_database, close_all_databases
\* and toggle_readonly_mode every open client's readonly flag is the
\* registry's.
C17_ClientsFollowRegistry ==
    /\ ToggleCalled =>
           /\ last.ret = (IF pre.readonly THEN 0 ELSE 1)
           /\ readonly = ~pre.readonly
    /\ \A k \in SeqToSet(databases) : db[k].readonly = readonly

\* a toggle to writable with both databases open before and after
C17_Witness ==
    /\ ToggleCalled
    /\ pre.readonly
    /\ last.ret = 0
    /\ Len(pre.databases) = 2
    /\ \A k \in Dbs : k \in SeqToSet(databases) /\ ~db[k].readonly

\* C18: open_database of a path that is open creates no client and no
\* repository and opens no second connection: the registry's keys and cached
\* metadata stay, every client stays the object it was (a connected one with
\* its handle and its transaction, one that had been disconnected at most
\* connected again by the table count), and only the active selection
\* changes, to that path, when set_active is true.
C18_OpenAgainIsIdempotent ==
    [][(last'.op = "open_database" /\ last'.db \in SeqToSet(databases)) =>
           /\ databases' = databases
           /\ repositories' = repositories
           /\ metadata_cache' = metadata_cache
           /\ readonly' = readonly
           /\ \A d \in Dbs \ {last'.db} : db'[d] = db[d]
           /\ db'[last'.db] \in {db[last'.db], connect(db[last'.db])}
           /\ db[last'.db].conn # "none" => db'[last'.db] = db[last'.db]
           /\ active_db' = IF last'.auto_commit THEN last'.db ELSE active_db]_vars

\* a second open_database, with set_active, of a database that is open but
\* not active and whose client is inside a transaction
C18_Witness ==
    /\ last.op = "open_database"
    /\ last.db \in SeqToSet(pre.databases)
    /\ last.auto_commit
    /\ last.err = NoErr
    /\ pre.active_db \notin {last.db, NoDb}
    /\ active_db = last.db
    /\ db[last.db].tx

CloseCalled == last.op = "close_database"

\* close_database closed the database that was active
ClosedActive ==
    /\ CloseCalled
    /\ last.db \in SeqToSet(pre.databases)
    /\ last.db = pre.active_db

\* C19: after close_database closes the active database, the active database
\* is one of those that remain open if any remains, and none only when none
\* remains.
C19_ActiveAfterClose ==
    ClosedActive =>
        /\ last.db \notin SeqToSet(databases)
        /\ IF databases = <<>> THEN active_db = NoDb
           ELSE active_db \in SeqToSet(databases)

\* the active one of two open databases is closed and the other takes over
C19_Witness ==
    /\ ClosedActive
    /\ Len(pre.databases) = 2
    /\ active_db \in SeqToSet(databases)

\* close_database was called with a path
ClosedPath == CloseCalled /\ last.stmt.path \in Dbs

\* C20: close_database(path) of an open path disconnects its client and
\* removes its client, repository and cached metadata and nothing else; the
\* active database stays when it is another one; close_database of a path
\* that is not open changes nothing.
C20_CloseRemovesExactlyOne ==
    ClosedPath =>
        /\ readonly = pre.readonly
        /\ \A d \in Dbs \ {last.stmt.path} : db[d].conn = pre.conn[d]
        /\ IF last.stmt.path \in SeqToSet(pre.databases)
           THEN /\ databases = Without(pre.databases, last.stmt.path)
                /\ repositories = Without(pre.repositories, last.stmt.path)
                /\ metadata_cache = pre.metadata_cache \ {last.stmt.path}
                /\ db[last.stmt.path].conn = "none"
                /\ last.stmt.path # pre.active_db => active_db = pre.active_db
           ELSE /\ databases = pre.databases
                /\ repositories = pre.repositories
                /\ metadata_cache = pre.metadata_cache
                /\ db[last.stmt.path].conn = pre.conn[last.stmt.path]
                /\ active_db = pre.active_db

\* of two open databases the one that is not active is closed
C20_Witness ==
    /\ ClosedPath
    /\ Len(pre.databases) = 2
    /\ last.stmt.path # pre.active_db
    /\ pre.active_db # NoDb
    /\ pre.conn[last.stmt.path] # "none"
    /\ last.stmt.path \in pre.metadata_cache
    /\ databases = <<pre.active_db>>

SetActiveCalled == last.op = "set_active_database"

\* C21: set_active_database returns true and makes the path active when the
\* path is open; for a path that is not open it returns false and the active
\* database stays; the open databases stay in both cases.
C21_SetActiveOnlyIfOpen ==
    SetActiveCalled =>
        /\ databases = pre.databases
        /\ repositories = pre.repositories
        /\ IF last.db \in SeqToSet(pre.databases)
           THEN last.ret = 1 /\ active_db = last.db
           ELSE last.ret = 0 /\ active_db = pre.active_db

\* a path that is not open is refused while another database is active
C21_Witness ==
    /\ SetActiveCalled
    /\ last.db \notin SeqToSet(pre.databases)
    /\ pre.active_db # NoDb
    /\ last.ret = 0
    /\ active_db = pre.active_db

\* insert_record, update_record or delete_record returned with auto_commit
\* false
QueuedCalled == last.op \in Mutations /\ ~last.auto_commit /\ last.err = NoErr

\* C22: with auto_commit false each of insert_record, update_record and
\* delete_record appends exactly one DataChange to the end of the pending
\* queue and leaves the database contents and the undo stack as they were;
\* insert_record returns -1.
C22_QueuedAppendsOne ==
    QueuedCalled =>
        /\ Len(pending_changes) = Len(pre.pending) + 1
        /\ Front(pending_changes) = pre.pending
        /\ DiskUnchanged
        /\ undo_stack = pre.undo
        /\ last.op = "insert_record" => last.ret = -1

DiscardCalled == last.op = "discard_changes"

\* C23: discard_changes empties the pending queue, returns the number of
\* entries it held, runs no statement and leaves the database contents, the
\* connections and the undo stack as they were.
C23_DiscardClearsQueue ==
    DiscardCalled =>
        /\ last.err = NoErr
        /\ pending_changes = <<>>
        /\ last.ret = Len(pre.pending)
        /\ last.log = <<>>
        /\ DiskUnchanged
        /\ \A k \in Dbs : db[k].conn = pre.conn[k]
        /\ undo_stack = pre.undo

\* a queue of two or more changes is discarded
C23_Witness ==
    /\ DiscardCalled
    /\ Len(pre.pending) >= 2
    /\ last.ret = Len(pre.pending)
    /\ pending_changes = <<>>

\* ----------------------------------------------------- transaction scopes
MaxScope == 2

ScopeStatements ==
    {Stmt(Chars_INSERT, "insert", [id |-> NoId, name |-> "a"], NoWhere),
     Stmt(Chars_INSERT, "insert", [id |-> 1, name |-> "b"], NoWhere)}

\* blocks and batches of up to MaxScope statements
Bodies == UNION {[1..n -> ScopeStatements] : n \in 0..MaxScope}

InitScope == InitWith({EmptyTable, OneRow}, {EmptyTable})

NextScope ==
    \/ OpenDatabase("d1")
    \/ ToggleReadonlyMode
    \/ ClientDisconnect
    \/ ClientTransaction(Bodies)
    \/ ClientExecuteMany(Bodies)

SpecScope == InitScope /\ [][NextScope]_vars

\* what the statement does to the table when the engine accepts it
Effect(t, stmt) ==
    CASE stmt.op = "insert" -> SqlInsert(t, stmt.data).t
      [] stmt.op = "update" -> SqlUpdate(t, stmt.data, stmt.where).t
      [] stmt.op = "delete" -> SqlDelete(t, stmt.where).t
      [] stmt.op = "replace" -> SqlReplace(t, stmt.data).t
      [] OTHER -> t

RECURSIVE Effects(_, _)
Effects(t, body) ==
    IF body = <<>> THEN t ELSE Effects(Effect(t, Head(body)), Tail(body))

\* a transaction block was run on a client that is not readonly
ScopeCalled == last.op = "transaction" /\ ~pre.readonly

\* C24: a transaction block that ends with an error is rolled back, raises
\* DatabaseError and leaves nothing of its statements in the database; one
\* that ends normally has committed all of them.
C24_ScopeAllOrNothing ==
    ScopeCalled =>
        /\ ~db[last.db].tx
        /\ IF last.err # NoErr
           THEN /\ last.err = "DatabaseError"
                /\ db[last.db].disk = pre.disk[last.db]
           ELSE db[last.db].disk = Effects(pre.disk[last.db], last.stmt.body)

\* a transaction block or execute_many was run on a readonly client
ReadonlyClientCalled == last.op \in {"transaction", "execute_many"} /\ pre.readonly

\* C25: on a readonly client transaction() and execute_many fail with
\* ReadOnlyError at once: no connection is opened, no transaction begun, no
\* statement reaches the engine and the database is as before.
C25_ReadonlyScopeRefused ==
    ReadonlyClientCalled =>
        /\ last.err = "ReadOnlyError"
        /\ last.log = <<>>
        /\ db[last.db].conn = pre.conn[last.db]
        /\ ~db[last.db].tx
        /\ DiskUnchanged

\* a block of statements on a readonly client that is not connected
C25_Witness ==
    /\ ReadonlyClientCalled
    /\ last.op = "transaction"
    /\ last.stmt.body # <<>>
    /\ pre.conn[last.db] = "none"
    /\ db[last.db].conn = "none"
    /\ last.err = "ReadOnlyError"

\* a write-classified statement returned from execute on a writable client
WriteExecuted ==
    /\ ExecuteCalled
    /\ ~db[last.db].readonly
    /\ IsWriteQuery(last.stmt.text)
    /\ last.err = NoErr

\* the table shows what the statement did
Visible(t, stmt) ==
    CASE stmt.op = "insert" ->
             IF stmt.data.id \in Ids THEN t[stmt.data.id] = stmt.data.name
             ELSE \E i \in Ids : t[i] = stmt.data.name
      [] stmt.op = "update" ->
             (stmt.where.col = "all" /\ stmt.data.id = NoId) =>
                 \A i \in Ids : t[i] \in {NoName, stmt.data.name}
      [] stmt.op = "delete" -> Matching(t, stmt.where) = {}
      [] OTHER -> TRUE

\* C26: when execute of a write-classified statement returns on a client that
\* is not readonly, the statement has been run once and committed: the
\* committed table shows the change, the handle sees the same table, and no
\* transaction is open.
C26_WriteIsCommitted ==
    WriteExecuted =>
        /\ last.log = <<last.stmt>>
        /\ ~db[last.db].tx
        /\ db[last.db].work = db[last.db].disk
        /\ Visible(db[last.db].disk, last.stmt)

\* an INSERT of row 1 into a table that did not hold it
C26_Witness ==
    /\ WriteExecuted
    /\ last.stmt.op = "insert"
    /\ pre.disk[last.db][1] = NoName
    /\ db[last.db].disk[1] = "b"

\* C27: connect on a connected client keeps its handle (with the transaction
\* open on it) and opens no other; disconnect on a disconnected client does
\* nothing; after connect the client holds a handle, after disconnect none;
\* execute on a disconnected client, unless refused as a write on a readonly
\* client, connects before it runs the statement. No other client is touched.
C27_ConnectDisconnectIdempotent ==
    [][/\ last'.op \in {"connect", "disconnect", "execute"} =>
              \A d \in Dbs \ {last'.db} : db'[d] = db[d]
       /\ last'.op = "connect" =>
              /\ last'.err = NoErr => db'[last'.db].conn # "none"
              /\ db[last'.db].conn # "none" => db'[last'.db] = db[last'.db]
       /\ last'.op = "disconnect" =>
              /\ db'[last'.db].conn = "none"
              /\ db[last'.db].conn = "none" => db'[last'.db] = db[last'.db]
       /\ (last'.op = "execute" /\ db[last'.db].conn = "none"
               /\ last'.err # "ReadOnlyError") =>
              /\ db'[last'.db].conn # "none"
              /\ last'.log = <<last'.stmt>>]_vars

\* connect on a client that is connected and inside a transaction
C27_Witness ==
    /\ last.op = "connect"
    /\ last.err = NoErr
    /\ pre.conn[last.db] # "none"
    /\ db[last.db].conn = pre.conn[last.db]
    /\ db[last.db].tx

\* ------------------------------------- concurrent connect and disconnect
InitShare == InitWith({OneRow}, {EmptyTable})

NextShare ==
    \/ \E t \in Threads : CallConnect(t)
    \/ \E t \in Threads : CallDisconnect(t)
    \/ \E t \in Threads : Acquire(t)
    \/ \E t \in Threads : ConnectTest(t)
    \/ \E t \in Threads : ConnectOpen(t)
    \/ \E t \in Threads : ConnectAssign(t)
    \/ \E t \in Threads : DisconnectTest(t)
    \/ \E t \in Threads : DisconnectClose(t)
    \/ \E t \in Threads : DisconnectClear(t)
    \/ \E t \in Threads : Release(t)

SpecShare == InitShare /\ [][NextShare]_vars

\* C28: however connect and disconnect calls of several threads on one client
\* interleave, at most one connection is open at any time, and whenever no
\* call is inside its locked section the open connections are exactly the
\* client's current one: none is open twice, none is left open unreferenced.
C28_OneHandle ==
    /\ Cardinality(handles) <= 1
    /\ lock = Free =>
           handles = (IF connection = NoHandle THEN {} ELSE {connection})

\* one thread waits for the lock while another has opened the connection and
\* not yet stored it
C28_Witness ==
    \E t, u \in Threads :
        /\ At(t, "connect:assign")
        /\ At(u, "connect:lock")
        /\ handles = {thread[t].h}
        /\ connection = NoHandle

\* ------------------------------------------------------------ Repository
RepositoryInserts == {EmptyData, [id |-> NoId, name |-> "a"], [id |-> 1, name |-> "b"]}

RepositoryUpdates ==
    {<<EmptyData, WhereAll>>, <<EmptyData, WhereId(1)>>,
     <<[id |-> NoId, name |-> "b"], WhereAll>>}

InitRepository == InitWith({EmptyTable, OneRow}, {EmptyTable})

NextRepository ==
    \/ OpenDatabase("d1")
    \/ ToggleReadonlyMode
    \/ ClientDisconnect
    \/ RepositoryInsert(RepositoryInserts)
    \/ RepositoryUpdate(RepositoryUpdates)

SpecRepository == InitRepository /\ [][NextRepository]_vars

\* Repository.insert or Repository.update was called with an empty row
EmptyRowGiven == last.op \in {"insert", "update"} /\ IsEmpty(last.stmt.data)

\* C29: Repository.insert and Repository.update with an empty row raise
\* ValueError: no statement reaches the engine, no connection is opened and
\* the database is as before.
C29_EmptyRowRejected ==
    EmptyRowGiven =>
        /\ last.err = "ValueError"
        /\ last.log = <<>>
        /\ db[last.db].conn = pre.conn[last.db]
        /\ DiskUnchanged

\* an update with an empty row on a writable client that is not connected
C29_Witness ==
    /\ EmptyRowGiven
    /\ last.op = "update"
    /\ ~pre.readonly
    /\ pre.conn[last.db] = "none"
    /\ db[last.db].conn = "none"
    /\ last.err = "ValueError"

\* the call before the undo was an immediate update_record that changed rows
UndoFollowsUpdate ==
    /\ UndoFollowsMutation
    /\ before.op = "update_record"
    /\ before.ret >= 1

\* C30: undo_last_operation right after an immediate update_record gives
\* every row the update changed its prior values back: the table is the one
\* from before the update, whatever column the update set and however many
\* rows it changed.
C30_UndoRestoresUpdatedRows == UndoFollowsUpdate => RestoredTo(before.disk)

\* ------------------------------------------- the table service on a registry
\* every call of the TableService and of the DatabaseService, on two files
InitSession == InitWith({EmptyTable}, {EmptyTable})

NextSession ==
    \/ \E k \in Dbs : Capped(OpenDatabase(k))
    \/ \E path \in Dbs \cup {NoDb} : Capped(CloseDatabase(path))
    \/ Capped(CloseAllDatabases)
    \/ \E k \in Dbs : Capped(SetActiveDatabase(k))
    \/ Capped(ToggleReadonlyMode)
    \/ Capped(InsertRecord(Inserts \cup {EmptyData}, TRUE))
    \/ Capped(InsertRecord(Inserts, FALSE))
    \/ Capped(UpdateRecord(Updates, TRUE))
    \/ Capped(DeleteRecord(Deletes, TRUE))
    \/ Capped(CommitChanges)
    \/ Capped(DiscardChanges)
    \/ Capped(UndoLastOperation)
    \/ Capped(GetPage({<<1>>}, {1}, {1}))
    \/ Capped(SearchTable({<<Chars_TEXT>>}, {<<>>}, {1}, {1}))
    \/ Capped(GetRecord({1}))

SpecSession == InitSession /\ [][NextSession]_vars

\* C31: the pending queue changes only through a queued (auto_commit false)
\* insert_record, update_record or delete_record, a commit_changes that
\* succeeds, or discard_changes; immediate mutations, undo_last_operation,
\* get_page, search_table, get_record and the registry's open_database,
\* close_database, close_all_databases, set_active_database and
\* toggle_readonly_mode leave it as it was.
C31_QueueFrame ==
    pending_changes # pre.pending =>
        \/ QueuedCalled
        \/ last.op = "commit_changes" /\ last.err = NoErr
        \/ DiscardCalled

\* a call outside the three ran on a non-empty queue (an immediate insert
\* that was executed, here) and the queue is as it was
C31_Witness ==
    /\ last.op = "insert_record"
    /\ last.auto_commit
    /\ last.err = NoErr
    /\ pre.pending # <<>>
    /\ pending_changes = pre.pending
    /\ Len(databases) = 2

\* the registry and the files are as the last call found them
RegistryUnchanged ==
    /\ readonly = pre.readonly
    /\ active_db = pre.active_db
    /\ databases = pre.databases
    /\ repositories = pre.repositories
    /\ metadata_cache = pre.metadata_cache
    /\ \A k \in Dbs : db[k].conn = pre.conn[k] /\ db[k].file = pre.file[k]

\* C32: undo_last_operation on an empty undo stack returns false in every
\* registry state (readonly or not, a database active or none) and changes
\* nothing; on a non-empty stack while the registry is readonly it raises
\* ReadOnlyError and leaves the undo stack and the database as they were.
C32_UndoRefused ==
    UndoCalled =>
        /\ pre.undo = <<>> =>
               /\ last.err = NoErr
               /\ last.ret = 0
               /\ Untouched
               /\ RegistryUnchanged
        /\ (pre.undo # <<>> /\ pre.readonly) =>
               /\ last.err = "ReadOnlyError"
               /\ undo_stack = pre.undo
               /\ DiskUnchanged
               /\ last.log = <<>>

\* refused with ReadOnlyError on a stack that holds an entry, in a readonly
\* registry that has no active database
C32_Witness ==
    /\ UndoCalled
    /\ pre.undo # <<>>
    /\ pre.readonly
    /\ pre.active_db = NoDb
    /\ last.err = "ReadOnlyError"
    /\ undo_stack = pre.undo

\* C33: in every reachable state of the registry the active database is none
\* or the key of an open database, and the Client map and the Repository map
\* have the same keys.
C33_RegistryConsistent ==
    /\ active_db = NoDb \/ active_db \in SeqToSet(databases)
    /\ SeqToSet(databases) = SeqToSet(repositories)

\* the active database was closed while another one was open: the other one
\* is active now
C33_Witness ==
    /\ CloseCalled
    /\ pre.active_db = last.db
    /\ Len(pre.databases) = 2
    /\ active_db # NoDb
    /\ active_db # pre.active_db
    /\ SeqToSet(databases) = {active_db}
    /\ SeqToSet(repositories) = {active_db}

\* ------------------------------------------- the registry on failing files
\* the registry's calls on files that disappear or stop being databases
InitOpen == InitWith({OneRow}, {EmptyTable})

NextOpen ==
    \/ \E k \in Dbs : OpenDatabase(k)
    \/ \E path \in Dbs \cup {NoDb} : CloseDatabase(path)
    \/ CloseAllDatabases
    \/ ToggleReadonlyMode
    \/ \E k \in Dbs : SetActiveDatabase(k)
    \/ \E db_path \in Dbs \cup {NoDb} : RefreshMetadata(db_path)
    \/ \E k \in Dbs : RemoveFile(k)
    \/ \E k \in Dbs : SpoilFile(k)

SpecOpen == InitOpen /\ [][NextOpen]_vars

\* C34: the metadata cache holds an entry only for databases that are open,
\* after any sequence of open_database, close_database, close_all_databases,
\* toggle_readonly_mode and refresh_metadata, the last one with any key,
\* open or not.
C34_CacheOnlyForOpen == metadata_cache \subseteq SeqToSet(databases)

\* open_database raised DatabaseError on a path that was not open
OpenFailed ==
    /\ last.op = "open_database"
    /\ last.err = "DatabaseError"
    /\ last.db \notin SeqToSet(pre.databases)

\* C35: when open_database raises, because connect fails or because listing
\* the tables for the metadata cache fails, the registry is as before: the
\* path is not registered, no connection stays open, the active selection and
\* the metadata cache are unchanged.
C35_FailedOpenLeavesRegistry ==
    OpenFailed =>
        /\ last.db \notin SeqToSet(databases) \cup SeqToSet(repositories)
        /\ db[last.db].conn = "none"
        /\ active_db = pre.active_db
        /\ metadata_cache = pre.metadata_cache
        /\ RegistryUnchanged

\* ------------------------------------------ changes and the active database
\* Two databases are opened and selected in turn; the caller creates changes
\* (queued or immediate) only while Origin is the active database.
Origin == "d1"

InitOrigin == InitWith({EmptyTable, OneRow}, {EmptyTable, OneRow})

NextOrigin ==
    \/ \E k \in Dbs : Capped(OpenDatabase(k))
    \/ \E k \in Dbs : Capped(SetActiveDatabase(k))
    \/ Capped(CloseDatabase(NoDb))
    \/ Capped(ToggleReadonlyMode)
    \/ active_db = Origin /\ Capped(InsertRecord(Inserts, TRUE))
    \/ active_db = Origin /\ Capped(InsertRecord(Inserts, FALSE))
    \/ active_db = Origin /\ Capped(DeleteRecord(Deletes, TRUE))
    \/ Capped(CommitChanges)
    \/ Capped(DiscardChanges)
    \/ Capped(UndoLastOperation)

SpecOrigin == InitOrigin /\ [][NextOrigin]_vars

\* C36: a pending change or an undo entry is applied only to the database that
\* was active when it was created: after the active selection has changed,
\* commit_changes and undo_last_operation never write such an entry into a
\* different database. Every entry here was created with Origin active, so
\* neither call changes another database's contents.
C36_EntriesStayInTheirDatabase ==
    last.op \in {"commit_changes", "undo_last_operation"} =>
        \A k \in Dbs \ {Origin} : db[k].disk = pre.disk[k]

\* insert_record, update_record or delete_record with auto_commit true raised
ImmediateFailed == MutationCalled /\ last.auto_commit /\ last.err # NoErr

\* C37: when an immediate insert_record, update_record or delete_record
\* raises (no active database, readonly registry, a row that fails validation,
\* a statement the engine refuses), the undo stack and the pending queue are
\* exactly as before the call: the undo entry is pushed only after the
\* statement was executed.
C37_FailedMutationKeepsStacks ==
    ImmediateFailed => (undo_stack = pre.undo /\ pending_changes = pre.pending)

\* the engine refused an immediate insert (the key exists) while the undo
\* stack and the queue held an entry each
C37_Witness ==
    /\ ImmediateFailed
    /\ last.op = "insert_record"
    /\ last.err = "DatabaseError"
    /\ pre.active_db # NoDb
    /\ ~pre.readonly
    /\ last.log # <<>>
    /\ pre.undo # <<>>
    /\ pre.pending # <<>>
    /\ undo_stack = pre.undo
    /\ pending_changes = pre.pending

\* C38: after every execute() that returns on a client that is not readonly,
\* outside a transaction() block, no uncommitted change remains on the
\* connection: what the handle sees is what is committed. This includes the
\* data-modifying statements whose leading keyword is none of the six
\* classified ones (REPLACE, WITH ... INSERT, a statement behind a comment).
C38_NothingUncommitted ==
    (ExecuteCalled /\ ~db[last.db].readonly /\ last.err = NoErr) =>
        db[last.db].work = db[last.db].disk
====
